---- MODULE Spec2Model ----
(***************************************************************************)
(* Model of the street-segment resolver of the snow_montreal integration:  *)
(* the StreetLookup store (street_lookup.py), its load path with the lock  *)
(* and the cache file, and its search functions.                           *)
(*                                                                         *)
(* Python strings are sequences of one-character strings, so that lower(), *)
(* strip(), split(), replace(), startswith() and `in` are computed as      *)
(* Python computes them.                                                   *)
(***************************************************************************)
EXTENDS Integers, Sequences, FiniteSets, TLC

(***************************************************************************)
(* Python str operations                                                   *)
(***************************************************************************)
UpperLetters ==
  <<"A","B","C","D","E","F","G","H","I","J","K","L","M",
    "N","O","P","Q","R","S","T","U","V","W","X","Y","Z">>

LowerLetters ==
  <<"a","b","c","d","e","f","g","h","i","j","k","l","m",
    "n","o","p","q","r","s","t","u","v","w","x","y","z">>

Digits == <<"0","1","2","3","4","5","6","7","8","9">>

Punctuation == <<" ", ",", "-", ".">>

Alphabet ==
  {UpperLetters[i] : i \in DOMAIN UpperLetters} \cup
  {LowerLetters[i] : i \in DOMAIN LowerLetters} \cup
  {Digits[i] : i \in DOMAIN Digits} \cup {Punctuation[i] : i \in DOMAIN Punctuation}

IndexIn(c, letters) ==
  IF \E i \in DOMAIN letters : letters[i] = c
  THEN CHOOSE i \in DOMAIN letters : letters[i] = c
  ELSE 0

\* ord(c) for the ASCII characters of the alphabet
CodePoints ==
  [c \in Alphabet |->
     IF IndexIn(c, UpperLetters) > 0 THEN 64 + IndexIn(c, UpperLetters)
     ELSE IF IndexIn(c, LowerLetters) > 0 THEN 96 + IndexIn(c, LowerLetters)
     ELSE IF IndexIn(c, Digits) > 0 THEN 47 + IndexIn(c, Digits)
     ELSE IF c = " " THEN 32
     ELSE IF c = "," THEN 44
     ELSE IF c = "-" THEN 45
     ELSE 46]

CodePoint(c) == CodePoints[c]

\* str.lower(), character by character
LowerChars ==
  [c \in Alphabet |->
     IF IndexIn(c, UpperLetters) > 0 THEN LowerLetters[IndexIn(c, UpperLetters)] ELSE c]

LowerChar(c) == LowerChars[c]

StrLower(s) == [i \in 1..Len(s) |-> LowerChar(s[i])]

\* str.upper()
UpperChars ==
  [c \in Alphabet |->
     IF IndexIn(c, LowerLetters) > 0 THEN UpperLetters[IndexIn(c, LowerLetters)] ELSE c]

UpperChar(c) == UpperChars[c]

StrUpper(s) == [i \in 1..Len(s) |-> UpperChar(s[i])]

IsSpace(c) == c = " "

RECURSIVE LStrip(_)
LStrip(s) == IF s # <<>> /\ IsSpace(Head(s)) THEN LStrip(Tail(s)) ELSE s

RECURSIVE RStrip(_)
RStrip(s) ==
  IF s # <<>> /\ IsSpace(s[Len(s)]) THEN RStrip(SubSeq(s, 1, Len(s) - 1)) ELSE s

\* str.strip()
StrStrip(s) == RStrip(LStrip(s))

\* s.startswith(p)
StartsWith(s, p) == Len(p) <= Len(s) /\ SubSeq(s, 1, Len(p)) = p

\* p in s   (substring test on strings)
Contains(s, p) ==
  \E i \in 1..(Len(s) + 1) : i + Len(p) - 1 <= Len(s) /\ SubSeq(s, i, i + Len(p) - 1) = p

\* s.replace(old, new): left to right, non-overlapping occurrences of a non-empty old
RECURSIVE StrReplace(_, _, _)
StrReplace(s, old, new) ==
  IF s = <<>> THEN <<>>
  ELSE IF StartsWith(s, old)
       THEN new \o StrReplace(SubSeq(s, Len(old) + 1, Len(s)), old, new)
       ELSE <<Head(s)>> \o StrReplace(Tail(s), old, new)

\* s.split(): the maximal runs of non-whitespace characters, in order
RECURSIVE SplitFrom(_, _)
SplitFrom(s, word) ==
  IF s = <<>> THEN (IF word = <<>> THEN <<>> ELSE <<word>>)
  ELSE IF IsSpace(Head(s))
       THEN (IF word = <<>> THEN <<>> ELSE <<word>>) \o SplitFrom(Tail(s), <<>>)
       ELSE SplitFrom(Tail(s), Append(word, Head(s)))

StrSplit(s) == SplitFrom(s, <<>>)

\* a < b on Python strings: lexicographic on code points
RECURSIVE StrLess(_, _)
StrLess(a, b) ==
  IF b = <<>> THEN FALSE
  ELSE IF a = <<>> THEN TRUE
  ELSE IF CodePoint(Head(a)) # CodePoint(Head(b))
       THEN CodePoint(Head(a)) < CodePoint(Head(b))
       ELSE StrLess(Tail(a), Tail(b))

(***************************************************************************)
(* _normalize_street_name                                                  *)
(***************************************************************************)
\* the replacements dict, in insertion order
Replacements ==
  << <<  <<"s","t","-">>,          <<"s","a","i","n","t","-">> >>,
     <<  <<"s","t"," ">>,          <<"s","a","i","n","t"," ">> >>,
     <<  <<"s","t","e","-">>,      <<"s","a","i","n","t","e","-">> >>,
     <<  <<"s","t","e"," ">>,      <<"s","a","i","n","t","e"," ">> >>,
     <<  <<"a","v",".">>,          <<"a","v","e","n","u","e">> >>,
     <<  <<"a","v"," ">>,          <<"a","v","e","n","u","e"," ">> >>,
     <<  <<"b","o","u","l",".">>,  <<"b","o","u","l","e","v","a","r","d">> >>,
     <<  <<"b","o","u","l"," ">>,  <<"b","o","u","l","e","v","a","r","d"," ">> >>,
     <<  <<"b","l","v","d">>,      <<"b","o","u","l","e","v","a","r","d">> >>,
     <<  <<"c","h",".">>,          <<"c","h","e","m","i","n">> >>,
     <<  <<"c","h"," ">>,          <<"c","h","e","m","i","n"," ">> >>,
     <<  <<"p","l",".">>,          <<"p","l","a","c","e">> >>,
     <<  <<"p","l"," ">>,          <<"p","l","a","c","e"," ">> >>,
     <<  <<"r","u","e"," ">>,      <<>> >> >>

RECURSIVE ApplyReplacements(_, _)
ApplyReplacements(s, k) ==
  IF k > Len(Replacements) THEN s
  ELSE ApplyReplacements(StrReplace(s, Replacements[k][1], Replacements[k][2]), k + 1)

\* the street names, queries and hints of the model's datasets and calls
RueSaintDenis == <<"R","u","e"," ","S","a","i","n","t","-","D","e","n","i","s">>
RueDenis == <<"R","u","e"," ","D","e","n","i","s">>
AvDenis == <<"A","v"," ","D","e","n","i","s">>
DenisEst == <<"D","e","n","i","s"," ","E","s","t">>
RueStDenis == <<"R","u","e"," ","S","t","-","D","e","n","i","s">>
Denis == <<"D","e","n","i","s">>
SaintDenisQuery == <<"s","a","i","n","t"," ","d","e","n","i","s">>
DenisQuery == <<"d","e","n","i","s">>
StDenisQuery == <<"S","t","-","D","e","n","i","s">>
BlankQuery == <<" ">>
SaintQuery == <<"S","a","i","n","t">>

KnownNames ==
  LET names == {RueSaintDenis, RueDenis, AvDenis, DenisEst, RueStDenis, Denis,
                SaintDenisQuery, DenisQuery, StDenisQuery, BlankQuery, SaintQuery}
  IN names \cup {StrLower(n) : n \in names}

\* _normalize_street_name
NormalizeComputed(name) == StrStrip(ApplyReplacements(StrLower(name), 1))

\* the same on the known names, computed once
NormalizedNames == [name \in KnownNames |-> NormalizeComputed(name)]

NormalizeStreetName(name) ==
  IF name \in KnownNames THEN NormalizedNames[name] ELSE NormalizeComputed(name)

(***************************************************************************)
(* JSON values of the dataset payload and Python's bool()/int() on them    *)
(***************************************************************************)
\* int | None is <<v>> | <<>>
None == <<>>
Some(v) == <<v>>

JAbsent == [t |-> "absent", n |-> 0, s |-> <<>>]
JNull == [t |-> "null", n |-> 0, s |-> <<>>]
JInt(n) == [t |-> "int", n |-> n, s |-> <<>>]
JStr(s) == [t |-> "str", n |-> 0, s |-> s]

\* dict.get(key): an absent key and a JSON null both read as None
IsNone(v) == v.t \in {"absent", "null"}

\* bool(v)
Truthy(v) ==
  CASE v.t = "int" -> v.n # 0
    [] v.t = "str" -> v.s # <<>>
    [] OTHER -> FALSE

IsDigitString(s) == s # <<>> /\ \A i \in 1..Len(s) : IndexIn(s[i], Digits) > 0

RECURSIVE DigitsValue(_)
DigitsValue(s) ==
  IF s = <<>> THEN 0
  ELSE 10 * DigitsValue(SubSeq(s, 1, Len(s) - 1)) + (IndexIn(s[Len(s)], Digits) - 1)

\* int(v) raises ValueError on a non-numeric string (surrounding blanks are allowed)
IntRaises(v) == v.t = "str" /\ ~IsDigitString(StrStrip(v.s))

IntOf(v) == IF v.t = "int" THEN v.n ELSE DigitsValue(StrStrip(v.s))

(***************************************************************************)
(* _extract_centroid.  Coordinates are integers (grid units); a geometry   *)
(* is [t, coords] with coords a sequence of <<lon, lat>> pairs (of lines,  *)
(* each a sequence of pairs, for a MultiLineString).  t "none" is a        *)
(* missing or null geometry, "string" a geometry that is not an object,    *)
(* "BadLineString" a LineString whose coordinates are numbers, not pairs.  *)
(***************************************************************************)
NoGeometry == [t |-> "none", coords |-> <<>>]
PointAt(lat, lon) == [t |-> "Point", coords |-> << <<lon, lat>> >>]
LineThrough(coords) == [t |-> "LineString", coords |-> coords]

RECURSIVE SumOf(_, _)
SumOf(coords, k) == IF coords = <<>> THEN 0 ELSE Head(coords)[k] + SumOf(Tail(coords), k)

\* the vertices of the lines of a MultiLineString, in order
RECURSIVE Flatten(_)
Flatten(lines) == IF lines = <<>> THEN <<>> ELSE Head(lines) \o Flatten(Tail(lines))

\* geometry.get on a geometry that is not a dict raises AttributeError, outside the
\* try of _extract_centroid
CentroidRaises(geometry) == geometry.t = "string"

\* <<lat, lon>>, each int | None; the model's lines have vertex sums divisible by
\* their vertex count, so the mean is an integer
ExtractCentroid(geometry) ==
  CASE geometry.t = "LineString" /\ geometry.coords # <<>> ->
         << Some(SumOf(geometry.coords, 2) \div Len(geometry.coords)),
            Some(SumOf(geometry.coords, 1) \div Len(geometry.coords)) >>
    [] geometry.t = "MultiLineString" /\ Flatten(geometry.coords) # <<>> ->
         << Some(SumOf(Flatten(geometry.coords), 2) \div Len(Flatten(geometry.coords))),
            Some(SumOf(Flatten(geometry.coords), 1) \div Len(Flatten(geometry.coords))) >>
    [] geometry.t = "Point" /\ geometry.coords # <<>> ->
         << Some(geometry.coords[1][2]), Some(geometry.coords[1][1]) >>
    [] OTHER -> << None, None >>

(***************************************************************************)
(* _parse_geobase.  A feature is [kind, id, name, start, end, side,        *)
(* borough, geometry]; kind "object" is a JSON object with a properties    *)
(* object, "notobject" a feature that is not a JSON object, "nullprops" an *)
(* object whose properties is null.                                        *)
(***************************************************************************)
Feature(id, name, start, end, side, geometry) ==
  [kind |-> "object", id |-> id, name |-> name, start |-> start, end |-> end,
   side |-> side, borough |-> "", geometry |-> geometry]

\* feature.get / props.get / .strip() on a value that has no such attribute raise
\* AttributeError, which the parse loop does not catch
FeatureAborts(f) ==
  \/ f.kind # "object"
  \/ /\ Truthy(f.id)
     /\ f.name.t \in {"null", "int"}
  \/ /\ Truthy(f.id)
     /\ f.name.t = "str" /\ StrStrip(f.name.s) # <<>>
     /\ CentroidRaises(f.geometry)

\* `continue` on a missing identifier or an empty name, and on ValueError/TypeError
FeatureSkipped(f) ==
  \/ ~Truthy(f.id)
  \/ StrStrip(f.name.s) = <<>>
  \/ IntRaises(f.id)
  \/ Truthy(f.start) /\ IntRaises(f.start)
  \/ Truthy(f.end) /\ IntRaises(f.end)

SegmentOf(f) ==
  [cote_rue_id |-> IntOf(f.id),
   street_name |-> StrStrip(f.name.s),
   address_start |-> IF Truthy(f.start) THEN Some(IntOf(f.start)) ELSE None,
   address_end |-> IF Truthy(f.end) THEN Some(IntOf(f.end)) ELSE None,
   side |-> f.side,
   borough |-> f.borough,
   lat |-> ExtractCentroid(f.geometry)[1],
   lon |-> ExtractCentroid(f.geometry)[2]]

RECURSIVE ParseFeatures(_)
ParseFeatures(features) ==
  IF features = <<>> THEN <<>>
  ELSE IF FeatureSkipped(Head(features)) THEN ParseFeatures(Tail(features))
  ELSE <<SegmentOf(Head(features))>> \o ParseFeatures(Tail(features))

\* A payload is [kind, features]: "collection" is an object with a features list,
\* "emptyobject" is {}, "array" is a non-empty JSON array (data.get raises).
Collection(features) == [kind |-> "collection", features |-> features]
EmptyObject == [kind |-> "emptyobject", features |-> <<>>]
JsonArray == [kind |-> "array", features |-> <<>>]

ParseRaises(data) ==
  \/ data.kind = "array"
  \/ \E i \in 1..Len(data.features) : FeatureAborts(data.features[i])

ParseGeobase(data) == ParseFeatures(data.features)

(***************************************************************************)
(* list.sort(key=...): stable, ascending in the key                        *)
(***************************************************************************)
\* the element at index i lands after every element with a smaller key and after
\* the elements with an equal key that precede it in xs
SortedPosition(xs, i, Less(_, _)) ==
  1 + Cardinality({j \in 1..Len(xs) :
        /\ j # i
        /\ \/ Less(xs[j], xs[i])
           \/ ~Less(xs[i], xs[j]) /\ j < i})

StableSort(xs, Less(_, _)) ==
  [k \in 1..Len(xs) |-> xs[CHOOSE i \in 1..Len(xs) : SortedPosition(xs, i, Less) = k]]

\* a faulty variant: the list is not cut
TakeAll(xs, n) == xs

\* xs[:n]
Take(xs, n) == SubSeq(xs, 1, IF n < Len(xs) THEN n ELSE Len(xs))

(***************************************************************************)
(* Civic ranges                                                            *)
(***************************************************************************)
\* truth value of an int | None field
Present(x) == x # None /\ x[1] # 0

\* x or 0
OrZero(x) == IF Present(x) THEN x[1] ELSE 0

Min(a, b) == IF a <= b THEN a ELSE b
Max(a, b) == IF a >= b THEN a ELSE b
Abs(a) == IF a < 0 THEN 0 - a ELSE a

\* segment.address_start and segment.address_end
HasClosedRange(seg) == Present(seg.address_start) /\ Present(seg.address_end)

\* a faulty variant: the bounds are compared in their stored order
InStoredOrder(seg, civic) ==
  seg.address_start[1] <= civic /\ civic <= seg.address_end[1]

\* addr_min <= civic_number <= addr_max
InClosedRange(seg, civic) ==
  /\ Min(seg.address_start[1], seg.address_end[1]) <= civic
  /\ civic <= Max(seg.address_start[1], seg.address_end[1])

(***************************************************************************)
(* search                                                                  *)
(***************************************************************************)
ScoreExact == 100
ScorePrefix == 80
ScoreWord == 60
ScoreSubstring == 40
RangeBonus == 20

\* the name score of one segment for a normalized query; 0 is `continue`
MatchScore(street_normalized, query_normalized) ==
  IF street_normalized = query_normalized THEN ScoreExact
  ELSE IF StartsWith(street_normalized, query_normalized) THEN ScorePrefix
  ELSE IF \E i \in DOMAIN StrSplit(street_normalized) :
            StrSplit(street_normalized)[i] = query_normalized THEN ScoreWord
  ELSE IF Contains(street_normalized, query_normalized) THEN ScoreSubstring
  ELSE 0

\* a faulty variant: the branch for a segment with only address_start is missing
CivicExcludesClosedOnly(seg, civic_number) ==
  /\ civic_number # None
  /\ HasClosedRange(seg) /\ ~InClosedRange(seg, civic_number[1])

\* civic_number is int | None; TRUE when the civic filter drops the segment
CivicExcludes(seg, civic_number) ==
  /\ civic_number # None
  /\ IF HasClosedRange(seg) THEN ~InClosedRange(seg, civic_number[1])
     ELSE Present(seg.address_start) /\ civic_number[1] < seg.address_start[1]

CivicBonus(seg, civic_number) ==
  IF civic_number # None /\ HasClosedRange(seg) /\ InClosedRange(seg, civic_number[1])
  THEN RangeBonus ELSE 0

\* the (score, segment) pairs appended by the loop, in dataset order
RECURSIVE ScoredCandidates(_, _, _)
ScoredCandidates(segs, query_normalized, civic_number) ==
  IF segs = <<>> THEN <<>>
  ELSE LET seg == Head(segs)
           base == MatchScore(NormalizeStreetName(StrLower(seg.street_name)),
                              query_normalized)
           rest == ScoredCandidates(Tail(segs), query_normalized, civic_number)
       IN IF base = 0 \/ CivicExcludes(seg, civic_number) THEN rest
          ELSE << <<base + CivicBonus(seg, civic_number), seg>> >> \o rest

\* a faulty variant: the name comes before the score in the key
NameBeforeScoreLess(a, b) ==
  \/ StrLess(a[2].street_name, b[2].street_name)
  \/ /\ a[2].street_name = b[2].street_name
     /\ a[1] > b[1]

\* key (-score, street_name, address_start or 0)
SearchKeyLess(a, b) ==
  \/ a[1] > b[1]
  \/ /\ a[1] = b[1]
     /\ \/ StrLess(a[2].street_name, b[2].street_name)
        \/ /\ a[2].street_name = b[2].street_name
           /\ OrZero(a[2].address_start) < OrZero(b[2].address_start)

Seconds(pairs) == [i \in 1..Len(pairs) |-> pairs[i][2]]

\* StreetLookup.search on a store with the given _loaded and _streets
SearchIn(isLoaded, segs, query, civic_number, limit) ==
  IF ~isLoaded THEN <<>>
  ELSE IF StrStrip(StrLower(query)) = <<>> THEN <<>>
  ELSE Seconds(Take(StableSort(
         ScoredCandidates(segs, NormalizeStreetName(StrStrip(StrLower(query))),
                          civic_number),
         SearchKeyLess), limit))

(***************************************************************************)
(* _search_by_civic_number                                                 *)
(***************************************************************************)
\* the name filter: no filter when the hint (or its normalized form) is empty
HintKeeps(seg, street_hint) ==
  \/ street_hint = <<>>
  \/ NormalizeStreetName(StrLower(street_hint)) = <<>>
  \/ Contains(NormalizeStreetName(StrLower(seg.street_name)),
              NormalizeStreetName(StrLower(street_hint)))

\* the range test of the loop body: only a segment with both bounds is appended
CivicRangeMatches(seg, civic_number) ==
  HasClosedRange(seg) /\ InClosedRange(seg, civic_number)

RECURSIVE CivicCandidates(_, _, _)
CivicCandidates(segs, civic_number, street_hint) ==
  IF segs = <<>> THEN <<>>
  ELSE IF HintKeeps(Head(segs), street_hint) /\ CivicRangeMatches(Head(segs), civic_number)
       THEN <<Head(segs)>> \o CivicCandidates(Tail(segs), civic_number, street_hint)
       ELSE CivicCandidates(Tail(segs), civic_number, street_hint)

\* key (street_name, address_start or 0)
NameStartLess(a, b) ==
  \/ StrLess(a.street_name, b.street_name)
  \/ /\ a.street_name = b.street_name
     /\ OrZero(a.address_start) < OrZero(b.address_start)

SearchByCivicNumberIn(isLoaded, segs, civic_number, street_hint, limit) ==
  IF ~isLoaded THEN <<>>
  ELSE Take(StableSort(CivicCandidates(segs, civic_number, street_hint), NameStartLess),
            limit)

(***************************************************************************)
(* find_nearest_segments                                                   *)
(***************************************************************************)
LatScale == 100
LonScale == 49

\* _calculate_distance, up to a monotone function: for points a few grid units
\* (hundredths of a degree) apart around latitude 45.5 the haversine distance
\* orders pairs as 100 * dlat^2 + 49 * dlon^2 does (cos(45.5 deg)^2 = 0.49)
CalculateDistance(lat1, lon1, lat2, lon2) ==
  LatScale * (lat2 - lat1) * (lat2 - lat1) + LonScale * (lon2 - lon1) * (lon2 - lon1)

\* a faulty variant: only a name that contains the hint is kept
NearestNameKeepsOneWay(seg, street_name) ==
  \/ street_name = <<>>
  \/ NormalizeStreetName(StrLower(street_name)) = <<>>
  \/ Contains(NormalizeStreetName(StrLower(seg.street_name)),
              NormalizeStreetName(StrLower(street_name)))

\* the name filter, in either direction
NearestNameKeeps(seg, street_name) ==
  \/ street_name = <<>>
  \/ NormalizeStreetName(StrLower(street_name)) = <<>>
  \/ Contains(NormalizeStreetName(StrLower(seg.street_name)),
              NormalizeStreetName(StrLower(street_name)))
  \/ Contains(NormalizeStreetName(StrLower(street_name)),
              NormalizeStreetName(StrLower(seg.street_name)))

HasCentroid(seg) == seg.lat # None /\ seg.lon # None

\* the (distance, segment) pairs appended by the loop, in dataset order
RECURSIVE NearestCandidates(_, _, _, _, _)
NearestCandidates(segs, lat, lon, street_name, civic_number) ==
  IF segs = <<>> THEN <<>>
  ELSE LET seg == Head(segs)
           rest == NearestCandidates(Tail(segs), lat, lon, street_name, civic_number)
       IN IF ~HasCentroid(seg) \/ ~NearestNameKeeps(seg, street_name)
             \/ CivicExcludes(seg, civic_number)
          THEN rest
          ELSE << <<CalculateDistance(lat, lon, seg.lat[1], seg.lon[1]), seg>> >> \o rest

DistanceLess(a, b) == a[1] < b[1]

FindNearestSegmentsIn(isLoaded, segs, lat, lon, street_name, civic_number, limit) ==
  IF ~isLoaded THEN <<>>
  ELSE Seconds(Take(StableSort(
         NearestCandidates(segs, lat, lon, street_name, civic_number), DistanceLess),
         limit))

(***************************************************************************)
(* async_search_by_postal_code: the part after geocoding                   *)
(***************************************************************************)
\* all_results after the loop over the hits: order-preserving union
RECURSIVE AppendNew(_, _)
AppendNew(acc, segs) ==
  IF segs = <<>> THEN acc
  ELSE IF \E i \in DOMAIN acc : acc[i] = Head(segs) THEN AppendNew(acc, Tail(segs))
  ELSE AppendNew(Append(acc, Head(segs)), Tail(segs))

RECURSIVE PostalUnion(_, _, _, _, _)
PostalUnion(acc, isLoaded, segs, geocoded, limit) ==
  IF geocoded = <<>> THEN acc
  ELSE PostalUnion(
         AppendNew(acc, FindNearestSegmentsIn(isLoaded, segs, Head(geocoded).lat,
                                              Head(geocoded).lon, <<>>, None, limit * 2)),
         isLoaded, segs, Tail(geocoded), limit)

\* a faulty variant: the distance to the range is left out of the key
PostalKeyWithoutPenalty(seg, civic_number) ==
  << IF HasClosedRange(seg) /\ InClosedRange(seg, civic_number) THEN 0 ELSE 1, 0,
     seg.street_name >>

\* sort_key(seg) = (not in_range, distance_penalty, street_name)
PostalKey(seg, civic_number) ==
  LET closed == HasClosedRange(seg)
      in_range == closed /\ InClosedRange(seg, civic_number)
      penalty == IF closed /\ ~in_range
                 THEN Min(Abs(civic_number - Min(seg.address_start[1], seg.address_end[1])),
                          Abs(civic_number - Max(seg.address_start[1], seg.address_end[1])))
                 ELSE 0
  IN << IF in_range THEN 0 ELSE 1, penalty, seg.street_name >>

PostalKeyLess(ka, kb) ==
  \/ ka[1] < kb[1]
  \/ ka[1] = kb[1] /\ ka[2] < kb[2]
  \/ ka[1] = kb[1] /\ ka[2] = kb[2] /\ StrLess(ka[3], kb[3])

PostalRanked(isLoaded, segs, geocoded, civic_number, limit) ==
  LET Less(a, b) == PostalKeyLess(PostalKey(a, civic_number), PostalKey(b, civic_number))
  IN Take(StableSort(PostalUnion(<<>>, isLoaded, segs, geocoded, limit), Less), limit)

(***************************************************************************)
(* async_geocode_address and _geocode_postal_code: the responses of the    *)
(* geocoding service and what the two functions make of them               *)
(***************************************************************************)
\* a geocoding hit: only the fields the searches read
Hit(lat, lon, street, house_number) ==
  [lat |-> lat, lon |-> lon, street |-> street, house_number |-> house_number]

\* One element of the decoded array.  kind "object" is a JSON object, "string" any
\* element that is not one; address is "object", "absent" or "null"; road, street
\* and house_number are strings, <<>> when the key is absent.
GeoItem(lat, lon, road, street, house_number) ==
  [kind |-> "object", lat |-> lat, lon |-> lon, address |-> "object", road |-> road,
   street |-> street, house_number |-> house_number]

NotAnItem ==
  [kind |-> "string", lat |-> JAbsent, lon |-> JAbsent, address |-> "absent",
   road |-> <<>>, street |-> <<>>, house_number |-> <<>>]

\* A body is [t, items]: "notjson" makes response.json() raise, "null" and "object"
\* are a JSON null and a non-empty JSON object (such as {"error": ...}), "array" is a
\* JSON array of the items.
NoBody == [t |-> "none", items |-> <<>>]
NotJson == [t |-> "notjson", items |-> <<>>]
JsonNullBody == [t |-> "null", items |-> <<>>]
JsonObjectBody == [t |-> "object", items |-> <<>>]
JsonArrayOf(items) == [t |-> "array", items |-> items]

\* float(v): TypeError on None, ValueError on a non-numeric string
FloatRaises(v) == v.t = "null" \/ (v.t = "str" /\ ~IsDigitString(StrStrip(v.s)))

\* float(item.get(key, 0))
FloatOf(v) == IF v.t = "absent" THEN 0 ELSE IntOf(v)

\* item.get on something that is not a dict, addr.get on None, float() on a value
\* that is not a number
ItemRaises(item) ==
  \/ item.kind # "object"
  \/ item.address = "null"
  \/ FloatRaises(item.lat)
  \/ FloatRaises(item.lon)

\* GeocodedAddress(...) of one item; street is addr.get("road") or addr.get("street")
HitOf(item) ==
  Hit(FloatOf(item.lat), FloatOf(item.lon),
      IF item.address = "object" /\ item.road # <<>> THEN item.road
      ELSE IF item.address = "object" THEN item.street ELSE <<>>,
      IF item.address = "object" THEN item.house_number ELSE <<>>)

\* a faulty variant: the items read before the one that raises are returned
ParseHitsKeepingPrefix(body) ==
  IF body.t # "array" THEN <<>>
  ELSE LET bad == {i \in DOMAIN body.items : ItemRaises(body.items[i])}
           n == IF bad = {} THEN Len(body.items)
                ELSE (CHOOSE i \in bad : \A j \in bad : i <= j) - 1
       IN [i \in 1..n |-> HitOf(body.items[i])]

\* data = await response.json(); for item in data: results.append(...); return
\* results -- with every exception ending in return []
ParseHits(body) ==
  IF body.t # "array" \/ \E i \in DOMAIN body.items : ItemRaises(body.items[i])
  THEN <<>>
  ELSE [i \in DOMAIN body.items |-> HitOf(body.items[i])]

\* A response is [status, body]; status 0 stands for session.get raising (no
\* connection, timeout) instead of giving a response.
Response(status, body) == [status |-> status, body |-> body]
TransportError == Response(0, NoBody)
NoResponse == Response(-1, NoBody)

\* 503 is the status the functions retry on; raise_for_status raises from 400 on
StatusBusy == 503
FirstErrorStatus == 400

\* response.raise_for_status()
StatusRaises(status) == status >= FirstErrorStatus

\* the request raised, or raise_for_status does
ResponseFails(resp) == resp = TransportError \/ StatusRaises(resp.status)

\* what the geocoding function returns once it is done with the response
GeocodeOutcome(resp) == IF ResponseFails(resp) THEN <<>> ELSE ParseHits(resp.body)

\* a faulty variant: every failed request is retried
RetriesOn503Always(resp, sent) == ResponseFails(resp) /\ sent < 3

\* if response.status == 503, on the first response only
RetriesOn503(resp, sent) == sent = 1 /\ resp.status = StatusBusy

(***************************************************************************)
(* _parse_address                                                          *)
(***************************************************************************)
IsDigit(c) == IndexIn(c, Digits) > 0
IsSeparator(c) == c = "," \/ IsSpace(c)

\* the length of the longest prefix of digits, and of blanks and commas
RECURSIVE DigitRun(_)
DigitRun(s) == IF s = <<>> \/ ~IsDigit(Head(s)) THEN 0 ELSE 1 + DigitRun(Tail(s))

RECURSIVE SeparatorRun(_)
SeparatorRun(s) == IF s = <<>> \/ ~IsSeparator(Head(s)) THEN 0 ELSE 1 + SeparatorRun(Tail(s))

\* s up to its first comma
RECURSIVE BeforeComma(_)
BeforeComma(s) ==
  IF s = <<>> \/ Head(s) = "," THEN <<>> ELSE <<Head(s)>> \o BeforeComma(Tail(s))

Drop(s, n) == SubSeq(s, n + 1, Len(s))

\* re.match(r"^\s*(\d+)\s*[,\s]+(.+?)(?:,|$)", address): <<matched, group 1, group 2>>.
\* The separators are taken greedily; when nothing follows them the last one is
\* given back and becomes group 2.
AddressMatch(address) ==
  LET t == LStrip(address)
      n == DigitRun(t)
      r == Drop(t, n)
      m == SeparatorRun(r)
      rest == Drop(r, m)
  IN IF n = 0 \/ m = 0 \/ (rest = <<>> /\ m < 2) THEN <<FALSE, <<>>, <<>> >>
     ELSE IF rest # <<>> THEN <<TRUE, SubSeq(t, 1, n), Take(rest, 1) \o BeforeComma(Drop(rest, 1))>>
     ELSE <<TRUE, SubSeq(t, 1, n), <<r[m]>> >>

\* montreal|qc|quebec|canada: the alternatives the alphabet of the model can spell
CityWords ==
  { <<"m","o","n","t","r","e","a","l">>, <<"q","c">>, <<"q","u","e","b","e","c">>,
    <<"c","a","n","a","d","a">> }

\* re.sub(r",?\s*(montreal|...|canada).*$", "", address, flags=re.IGNORECASE): the
\* text from the leftmost match on is dropped; the match starts at the comma and
\* blanks in front of the first city word
WithoutCity(address) ==
  LET low == StrLower(address)
      at == {i \in DOMAIN low : \E w \in CityWords : StartsWith(Drop(low, i - 1), w)}
  IN IF at = {} THEN address
     ELSE LET first == CHOOSE i \in at : \A j \in at : i <= j
              blanks == CHOOSE k \in 0..(first - 1) :
                          /\ \A j \in (first - k)..(first - 1) : IsSpace(address[j])
                          /\ (first - k - 1 >= 1 => ~IsSpace(address[first - k - 1]))
              start == IF first - blanks - 1 >= 1 /\ address[first - blanks - 1] = ","
                       THEN first - blanks - 1 ELSE first - blanks
          IN SubSeq(address, 1, start - 1)

\* [civic, street]: civic is int | None; street is <<>> for None and for ""
ParseAddress(address) ==
  LET match == AddressMatch(address)
  IN IF match[1] THEN [civic |-> Some(DigitsValue(match[2])), street |-> StrStrip(match[3])]
     ELSE [civic |-> None, street |-> StrStrip(WithoutCity(address))]

(***************************************************************************)
(* async_search_by_full_address: the part after geocoding                  *)
(***************************************************************************)
Montreal == <<"m","o","n","t","r","e","a","l">>
MontrealSuffix ==
  <<",", " ", "M","o","n","t","r","e","a","l", ",", " ", "Q","u","e","b","e","c", ",", " ",
    "C","a","n","a","d","a">>

\* the q parameter of async_geocode_address
GeocodeQuery(address) ==
  IF Contains(StrLower(address), Montreal) THEN address ELSE address \o MontrealSuffix

\* a faulty variant: the house number of the hit is not used
HouseNumberIgnored(hit) == None

\* int(geo.house_number) if geo.house_number and geo.house_number.isdigit() else None
HouseNumberOf(hit) ==
  IF IsDigitString(hit.house_number) THEN Some(DigitsValue(hit.house_number)) ELSE None

\* all_results after the loop over the hits
RECURSIVE FullUnion(_, _, _, _, _)
FullUnion(acc, isLoaded, segs, geocoded, limit) ==
  IF geocoded = <<>> THEN acc
  ELSE FullUnion(
         AppendNew(acc, FindNearestSegmentsIn(isLoaded, segs, Head(geocoded).lat,
                                              Head(geocoded).lon, Head(geocoded).street,
                                              HouseNumberOf(Head(geocoded)), limit)),
         isLoaded, segs, Tail(geocoded), limit)

\* a faulty variant: the text search is made whatever the geocoder returned
FullAddressResultByTextOnly(isLoaded, segs, address, geocoded, limit) ==
  IF ParseAddress(address).street # <<>>
  THEN SearchIn(isLoaded, segs, ParseAddress(address).street, ParseAddress(address).civic,
                limit)
  ELSE <<>>

\* the list async_search_by_full_address returns for what the geocoder returned
FullAddressResult(isLoaded, segs, address, geocoded, limit) ==
  IF geocoded = <<>>
  THEN LET parsed == ParseAddress(address)
       IN IF parsed.street # <<>>
          THEN SearchIn(isLoaded, segs, parsed.street, parsed.civic, limit)
          ELSE <<>>
  ELSE Take(FullUnion(<<>>, isLoaded, segs, geocoded, limit), limit)

(***************************************************************************)
(* Bounds of the model                                                     *)
(***************************************************************************)
NumCallers == 2
MaxCalls == 3
MaxSegments == 2

Callers == 1..NumCallers

(***************************************************************************)
(* State                                                                   *)
(***************************************************************************)
VARIABLES
  cacheDir,   \* StreetLookup._cache_dir is set
  streets,    \* StreetLookup._streets
  loaded,     \* StreetLookup._loaded
  lock,       \* StreetLookup._lock: the caller holding it, 0 when free
  waiters,    \* the callers queued on _lock, in arrival order
  cache,      \* geobase_cache.json: [exists, age, content]
  pc,         \* per async_load call: where the coroutine is suspended
  force,      \* per call: force_refresh
  ret,        \* per call: "True" / "False" once returned, "raised" for an exception
  data,       \* per call: the local `data` of _async_get_geobase_data
  obs,        \* per call: what the call saw and did
  calls,      \* the number of async_load calls issued so far
  lastCall,   \* the last synchronous search call and its result
  postal,     \* the async_search_by_postal_code call in progress
  full,       \* the async_search_by_full_address call in progress
  http,       \* the geocoding call in progress: its requests and the last response
  again,      \* the result of the same search call made a second time
  stores,     \* the StreetLookup instances of the setup requests, by owner
  req,        \* per setup request: its handler, where it is and what it did
  apiConfig,  \* ApiConfigStore._data: the shared token (0: none) and simulation flag
  coordinators, \* per config entry: the SnowMontrealCoordinator in hass.data[DOMAIN]
  updates,    \* per coordinator: the _async_update_data call, where it is and what it did
  flows,      \* per options flow: the async_step_init call, where it is and what it did
  submits     \* the number of options forms submitted so far

storeVars == <<cacheDir, streets, loaded, lock, waiters, cache>>
loadVars == <<pc, force, ret, data, obs, calls>>
searchVars == <<lastCall, postal, full, http, again>>
setupVars == <<stores, req>>
apiVars == <<apiConfig, coordinators, updates, flows, submits>>
vars == <<cacheDir, streets, loaded, lock, waiters, cache, pc, force, ret, data, obs, calls,
          lastCall, postal, full, http, again, stores, req,
          apiConfig, coordinators, updates, flows, submits>>

(***************************************************************************)
(* The dataset payloads and the cache file                                 *)
(***************************************************************************)
CACHE_DURATION == 86400

NoData == [kind |-> "none", features |-> <<>>]
Corrupt == [kind |-> "corrupt", features |-> <<>>]

\* the segment of the end-to-end scenario
F42 == Feature(JInt(42), JStr(RueSaintDenis), JInt(1000), JInt(1200), "Droit", PointAt(2, 1))
\* bounds stored in reversed order
F7 == Feature(JInt(7), JStr(RueDenis), JInt(1200), JInt(1000), "Gauche", PointAt(0, 1))
\* only DEBUT_ADRESSE
F8 == Feature(JInt(8), JStr(AvDenis), JInt(1100), JAbsent, "Droit", PointAt(5, 0))
\* no bounds, no geometry
F9 == Feature(JInt(9), JStr(DenisEst), JInt(0), JInt(0), "Gauche", NoGeometry)
\* bounds given as strings, FIN_ADRESSE "0"
F5 == Feature(JStr(<<"5">>), JStr(RueStDenis), JStr(<<"1","1","5","0">>), JStr(<<"0">>),
              "Droit", LineThrough(<< <<0, 2>>, <<2, 4>> >>))
\* a feature that is not a JSON object
NotObject == [kind |-> "notobject", id |-> JAbsent, name |-> JAbsent, start |-> JAbsent,
              end |-> JAbsent, side |-> "", borough |-> "", geometry |-> NoGeometry]

\* a closed range and a geometry of a type _extract_centroid does not know
F6 == Feature(JInt(6), JStr(Denis), JInt(1000), JInt(1200), "Gauche",
              [t |-> "Polygon", coords |-> << <<0, 0>> >>])

FeaturePool == {F42, F7, F8, F9, F5, F6}

\* what the dataset URL can answer with
NetPayloads == { Collection(<<F42>>), EmptyObject, JsonArray }

\* if data:
PayloadTruthy(d) == d.kind \in {"collection", "array"}

CacheAges == <<0, CACHE_DURATION - 1, CACHE_DURATION, CACHE_DURATION + 1>>

NoCache == [exists |-> FALSE, age |-> 0, content |-> NoData]
CacheFile(age, content) == [exists |-> TRUE, age |-> age, content |-> content]
\* a cache directory the process may not search: stat() of the cache file fails with
\* EACCES, as do mkdir and the write
CacheDenied == [exists |-> FALSE, age |-> 0, content |-> [kind |-> "denied", features |-> <<>>]]

\* issuedLoaded: _loaded when the call was made; issuedFresh: a fresh cache file was
\* there then; during: another call was in flight then; fetched: GETs of the dataset URL;
\* readCache: the cache file was read; assigned: _streets was assigned
NoObs ==
  [issuedLoaded |-> FALSE, issuedFresh |-> FALSE, during |-> FALSE, fetched |-> 0,
   readCache |-> FALSE, assigned |-> FALSE]

\* a finished search call: its arguments and the list it returned
CallRecord(op, query, civic, limit, at, code, tried, geocoded, result) ==
  [op |-> op, query |-> query, civic |-> civic, limit |-> limit, at |-> at,
   code |-> code, tried |-> tried, geocoded |-> geocoded, result |-> result]

NoLastCall == CallRecord("none", <<>>, None, 0, <<>>, <<>>, <<>>, <<>>, <<>>)

\* a postal-code search suspended in a geocoding call: its arguments and the
\* formulations issued so far, the last one awaiting its answer
PostalCall(civic, code, hint, limit, tried) ==
  [pc |-> "geocoding", civic |-> civic, code |-> code, hint |-> hint, limit |-> limit,
   tried |-> tried]

NoPostal == [pc |-> "idle", civic |-> 0, code |-> <<>>, hint |-> <<>>, limit |-> 0,
             tried |-> <<>>]

\* no full-address search is in progress
NoFull == [pc |-> "idle", address |-> <<>>, limit |-> 0]

\* no geocoding call is in progress.  sent counts the GETs of the last call and resp
\* is the response it read last, kept until the caller has taken the result
NoHttp == [pc |-> "idle", sent |-> 0, resp |-> NoResponse]

\* the first GET of a geocoding call is in flight (the 0.5 s pacing sleep is over)
FirstRequest == [pc |-> "waiting", sent |-> 1, resp |-> NoResponse]

\* a full-address search suspended in its geocoding call
FullCall(address, limit) == [pc |-> "geocoding", address |-> address, limit |-> limit]

\* no search runs and no result is held
SearchIdle ==
  /\ lastCall = NoLastCall
  /\ postal = NoPostal
  /\ full = NoFull
  /\ http = NoHttp
  /\ again = None

\* no setup request has been made
SetupIdle ==
  /\ stores = <<>>
  /\ req = <<>>

\* no coordinator is built, no token is stored, no options flow is open
NumEntries == 1
MaxSubmits == 1

Entries == 1..NumEntries

\* the options flow of each config entry
Flows == Entries

NoToken == 0
Tokens == {1, 2}

NoCoordinator ==
  [made |-> FALSE, registered |-> FALSE, has_api_token |-> FALSE, client |-> None,
   update_interval |-> None]

NoUpdate == [pc |-> "idle", result |-> "none"]

NoFlow ==
  [pc |-> "idle", token |-> NoToken, sim |-> FALSE, errors |-> "none", client |-> "none",
   entry |-> 0, size |-> 0, result |-> "none"]

ApiIdle ==
  /\ apiConfig = [token |-> NoToken, sim |-> FALSE]
  /\ coordinators = [c \in Entries |-> NoCoordinator]
  /\ updates = [c \in Entries |-> NoUpdate]
  /\ flows = [f \in Flows |-> NoFlow]
  /\ submits = 0

(***************************************************************************)
(* StreetLookup.__init__                                                   *)
(***************************************************************************)
StoreInit ==
  /\ streets = <<>>
  /\ loaded = FALSE
  /\ lock = 0
  /\ waiters = <<>>

LoadIdle ==
  /\ pc = [p \in Callers |-> "idle"]
  /\ force = [p \in Callers |-> FALSE]
  /\ ret = [p \in Callers |-> "none"]
  /\ data = [p \in Callers |-> NoData]
  /\ obs = [p \in Callers |-> NoObs]
  /\ calls = 0

\* the cache directory holds whatever an earlier run left there
Init ==
  /\ StoreInit
  /\ LoadIdle
  /\ cacheDir \in BOOLEAN
  /\ cache \in {NoCache} \cup
       { CacheFile(CacheAges[a], c) :
           a \in DOMAIN CacheAges, c \in {Corrupt, EmptyObject, Collection(<<F42>>)} }
  /\ (~cacheDir => cache = NoCache)
  /\ SearchIdle
  /\ SetupIdle
  /\ ApiIdle

(***************************************************************************)
(* async_load, one action per stretch of code between two suspensions      *)
(***************************************************************************)
InFlight == {"waiting", "reading", "downloading", "writing"}
InBody == {"reading", "downloading", "writing"}

searchUnchanged == UNCHANGED <<searchVars, setupVars, apiVars>>

\* a faulty variant: the lock is taken without looking at its state
CanAcquireUnguarded == TRUE

\* asyncio.Lock.acquire takes the lock at once only when it is free and nobody queues
CanAcquire == lock = 0 /\ waiters = <<>>

\* a faulty variant: the early return is never taken
AlreadyLoadedNever(forced) == FALSE

\* a faulty variant: the early return is taken for the forced calls
AlreadyLoadedOnlyForced(forced) == loaded /\ forced

\* if self._loaded and not force_refresh
AlreadyLoaded(forced) == loaded /\ ~forced

\* a faulty variant: the age of the cache file is not looked at
CacheAlwaysFresh(age) == TRUE

\* cache_age < CACHE_DURATION
CacheIsFresh(age) == age < CACHE_DURATION

\* the cache branch is taken: a cache directory, no force, the file exists and is fresh
UseCache(forced) ==
  cacheDir /\ ~forced /\ cache.exists /\ CacheIsFresh(cache.age)

\* cache_file.exists() re-raises an OSError other than ENOENT, ENOTDIR, EBADF and
\* ELOOP; the call stands before the try of _async_get_geobase_data
ExistsRaises(forced) == cacheDir /\ ~forced /\ cache.content.kind = "denied"

\* a faulty variant: the parsed segments are added to the collection
StreetsAfterLoadExtended(d) == streets \o ParseGeobase(d)

\* self._streets = self._parse_geobase(data)
StreetsAfterLoad(d) == ParseGeobase(d)

\* a faulty variant: a failed load marks the store as not loaded
LoadedResetOnFailure == FALSE

\* the loaded flag after the except clause of async_load
LoadedAfterFailure == loaded

\* a lock that stays with the caller whose load failed
LockKeptAfterFailure(p) == p

\* the holder of the lock once the failed call has left "async with self._lock"
LockAfterFailure(p) == 0

\* except Exception: log, return False (the lock is released on the way out)
LoadFails(p, o) ==
  /\ pc' = [pc EXCEPT ![p] = "done"]
  /\ ret' = [ret EXCEPT ![p] = "False"]
  /\ data' = [data EXCEPT ![p] = NoData]
  /\ obs' = [obs EXCEPT ![p] = o]
  /\ loaded' = LoadedAfterFailure
  /\ lock' = LockAfterFailure(p)
  /\ UNCHANGED streets

\* self._streets = self._parse_geobase(data); self._loaded = True; return True
LoadFinishes(p, d, o) ==
  IF ParseRaises(d) THEN LoadFails(p, o)
  ELSE /\ streets' = StreetsAfterLoad(d)
       /\ loaded' = TRUE
       /\ pc' = [pc EXCEPT ![p] = "done"]
       /\ ret' = [ret EXCEPT ![p] = "True"]
       /\ data' = [data EXCEPT ![p] = NoData]
       /\ obs' = [obs EXCEPT ![p] = [o EXCEPT !.assigned = TRUE]]
       /\ lock' = 0

\* from the acquisition of the lock to the first await inside it
EnterBody(p, forced, seen) ==
  IF AlreadyLoaded(forced)
  THEN /\ pc' = [pc EXCEPT ![p] = "done"]
       /\ ret' = [ret EXCEPT ![p] = "True"]
       /\ obs' = seen
       /\ lock' = 0
       /\ UNCHANGED <<streets, loaded, data>>
  ELSE IF ExistsRaises(forced)
  THEN LoadFails(p, seen[p])
  ELSE /\ pc' = [pc EXCEPT ![p] = IF UseCache(forced) THEN "reading" ELSE "downloading"]
       /\ ret' = [ret EXCEPT ![p] = "none"]
       /\ obs' = seen
       /\ lock' = p
       /\ UNCHANGED <<streets, loaded, data>>

\* a caller calls async_load(force_refresh)
Call(p, forced) ==
  /\ pc[p] \in {"idle", "done"}
  /\ calls < MaxCalls
  /\ calls' = calls + 1
  /\ force' = [force EXCEPT ![p] = forced]
  /\ LET o == [NoObs EXCEPT !.issuedLoaded = loaded,
                            !.issuedFresh = UseCache(FALSE),
                            !.during = \E q \in Callers : pc[q] \in InFlight]
     IN IF CanAcquire
        THEN EnterBody(p, forced, [obs EXCEPT ![p] = o]) /\ UNCHANGED waiters
        ELSE /\ pc' = [pc EXCEPT ![p] = "waiting"]
             /\ ret' = [ret EXCEPT ![p] = "none"]
             /\ obs' = [obs EXCEPT ![p] = o]
             /\ waiters' = Append(waiters, p)
             /\ UNCHANGED <<streets, loaded, lock, data>>
  /\ UNCHANGED <<cacheDir, cache>>
  /\ searchUnchanged

\* the released lock wakes the first waiter, which goes on inside the lock
Wake(p) ==
  /\ pc[p] = "waiting"
  /\ lock = 0
  /\ waiters # <<>> /\ Head(waiters) = p
  /\ waiters' = Tail(waiters)
  /\ EnterBody(p, force[p], obs)
  /\ UNCHANGED <<cacheDir, cache, force, calls>>
  /\ searchUnchanged

\* data = await ...(_read_cache_file); if data: -- None for a file json.loads rejects
CacheGivesData == cache.content.kind # "corrupt" /\ PayloadTruthy(cache.content)

\* _read_cache_file has run in its thread
ReadCache(p) ==
  /\ pc[p] = "reading"
  /\ LET o == [obs[p] EXCEPT !.readCache = TRUE]
     IN IF CacheGivesData
        THEN LoadFinishes(p, cache.content, o)
        ELSE /\ pc' = [pc EXCEPT ![p] = "downloading"]
             /\ obs' = [obs EXCEPT ![p] = o]
             /\ UNCHANGED <<streets, loaded, lock, ret, data>>
  /\ UNCHANGED <<cacheDir, cache, waiters, force, calls>>
  /\ searchUnchanged

\* the GET of GEOBASE_URL completes: an exception (transport, timeout, HTTP status,
\* undecodable body) or the decoded payload
Download(p, ok, d) ==
  /\ pc[p] = "downloading"
  /\ LET o == [obs[p] EXCEPT !.fetched = @ + 1]
     IN IF ~ok THEN LoadFails(p, o)
        ELSE IF cacheDir
        THEN /\ pc' = [pc EXCEPT ![p] = "writing"]
             /\ data' = [data EXCEPT ![p] = d]
             /\ obs' = [obs EXCEPT ![p] = o]
             /\ UNCHANGED <<streets, loaded, lock, ret>>
        ELSE LoadFinishes(p, d, o)
  /\ UNCHANGED <<cacheDir, cache, waiters, force, calls>>
  /\ searchUnchanged

\* _write_cache_file has run in its thread: the file is written, or the write raised
\* before touching the file ("failed") or part-way through it ("torn")
WriteCache(p, outcome) ==
  /\ pc[p] = "writing"
  /\ cache.content.kind = "denied" => outcome = "failed"
  /\ cache' = CASE outcome = "written" -> CacheFile(0, data[p])
                [] outcome = "torn" -> CacheFile(0, Corrupt)
                [] OTHER -> cache
  /\ LoadFinishes(p, data[p], obs[p])
  /\ UNCHANGED <<cacheDir, waiters, force, calls>>
  /\ searchUnchanged

\* time passes: the cache file gets older.  The age is read only on entry to the
\* body of a load and a written file starts at age 0, so the time that passes while
\* a call is inside the body is let pass once that call is out of it.
Tick ==
  /\ cache.exists
  /\ \A p \in Callers : pc[p] \notin InBody
  /\ \E a \in DOMAIN CacheAges :
       /\ CacheAges[a] = cache.age
       /\ a < Len(CacheAges)
       /\ cache' = [cache EXCEPT !.age = CacheAges[a + 1]]
  /\ UNCHANGED <<cacheDir, streets, loaded, lock, waiters>>
  /\ UNCHANGED loadVars
  /\ searchUnchanged

Next ==
  \/ \E p \in Callers, forced \in BOOLEAN : Call(p, forced)
  \/ \E p \in Callers : Wake(p)
  \/ \E p \in Callers : ReadCache(p)
  \/ \E p \in Callers, d \in NetPayloads : Download(p, TRUE, d)
  \/ \E p \in Callers : Download(p, FALSE, NoData)
  \/ \E p \in Callers, outcome \in {"written", "failed", "torn"} : WriteCache(p, outcome)
  \/ Tick

Spec == Init /\ [][Next]_vars

(***************************************************************************)
(* Loads and forced reloads under fair scheduling: the event loop runs     *)
(* every task that is ready, the worker threads of the cache reads and     *)
(* writes finish, and the GET returns or times out (ClientTimeout of 120   *)
(* s).  Nothing obliges a caller to call.                                  *)
(***************************************************************************)
LivePayloads == { Collection(<<F42>>), JsonArray }

LiveInit ==
  /\ StoreInit
  /\ LoadIdle
  /\ cacheDir \in BOOLEAN
  /\ cache = NoCache
  /\ SearchIdle
  /\ SetupIdle
  /\ ApiIdle

\* the GET of caller p completes, one way or the other
DownloadEnds(p) ==
  \/ \E d \in LivePayloads : Download(p, TRUE, d)
  \/ Download(p, FALSE, NoData)

\* the cache write of caller p completes, one way or the other
WriteCacheEnds(p) == \E outcome \in {"written", "failed", "torn"} : WriteCache(p, outcome)

LiveNext ==
  \/ \E p \in Callers, forced \in BOOLEAN : Call(p, forced)
  \/ \E p \in Callers : Wake(p)
  \/ \E p \in Callers : ReadCache(p)
  \/ \E p \in Callers : DownloadEnds(p)
  \/ \E p \in Callers : WriteCacheEnds(p)

Fairness ==
  \A p \in Callers :
    /\ WF_vars(Wake(p))
    /\ WF_vars(ReadCache(p))
    /\ WF_vars(DownloadEnds(p))
    /\ WF_vars(WriteCacheEnds(p))

SpecLive == LiveInit /\ [][LiveNext]_vars /\ Fairness

(***************************************************************************)
(* Loads and forced reloads of payloads that hold malformed records, with  *)
(* a cache directory that holds no cache file or cannot be searched        *)
(***************************************************************************)
NullProps == [NotObject EXCEPT !.kind = "nullprops"]
NoIdFeature == Feature(JAbsent, JStr(RueDenis), JInt(1), JInt(9), "Droit", PointAt(1, 1))
ZeroId == Feature(JInt(0), JStr(RueDenis), JInt(1), JInt(9), "Droit", PointAt(1, 1))
NonNumericId ==
  Feature(JStr(<<"x">>), JStr(RueDenis), JInt(1), JInt(9), "Droit", PointAt(1, 1))
EmptyName == Feature(JInt(3), JStr(<<" ">>), JInt(1), JInt(9), "Droit", PointAt(1, 1))
NullName == Feature(JInt(3), JNull, JInt(1), JInt(9), "Droit", PointAt(1, 1))
BadBounds ==
  Feature(JInt(4), JStr(RueDenis), JStr(<<"x">>), JInt(9), "Droit", PointAt(1, 1))
BadGeometry ==
  Feature(JInt(4), JStr(RueDenis), JInt(1), JInt(9), "Droit",
          [t |-> "string", coords |-> <<>>])
BadCoordinates ==
  Feature(JInt(11), JStr(AvDenis), JInt(1), JInt(9), "Droit",
          [t |-> "BadLineString", coords |-> <<>>])
F12 == Feature(JInt(12), JStr(DenisEst), JInt(2), JInt(8), "Gauche",
               [t |-> "MultiLineString",
                coords |-> << << <<0, 2>> >>, << <<2, 4>>, <<4, 6>> >> >>])

RecordPayloads ==
  { Collection(<<F42>>),
    Collection(<<NoIdFeature, ZeroId, F7, NonNumericId, EmptyName, BadBounds,
                 BadCoordinates, F12>>),
    Collection(<<NullProps, F42>>),
    Collection(<<F42, NotObject>>),
    Collection(<<NullName, F42>>),
    Collection(<<F42, BadGeometry>>) }

ParseInit ==
  /\ StoreInit
  /\ LoadIdle
  /\ cacheDir = TRUE
  /\ cache \in {NoCache, CacheDenied}
  /\ SearchIdle
  /\ SetupIdle
  /\ ApiIdle

ParseNext ==
  \/ \E p \in Callers, forced \in BOOLEAN : Call(p, forced)
  \/ \E p \in Callers : Wake(p)
  \/ \E p \in Callers : ReadCache(p)
  \/ \E p \in Callers, d \in RecordPayloads : Download(p, TRUE, d)
  \/ \E p \in Callers : Download(p, FALSE, NoData)
  \/ \E p \in Callers, outcome \in {"written", "failed", "torn"} : WriteCache(p, outcome)

SpecParse == ParseInit /\ [][ParseNext]_vars

(***************************************************************************)
(* The setup requests: the search steps of the config flows, each flow     *)
(* with a StreetLookup of its own, and the search_street service, which    *)
(* uses the shared instance of get_street_lookup.  All of them keep the    *)
(* cache file in the same directory.  Store 0 is the shared instance,      *)
(* store p the instance of the flow that handles request p.                *)
(***************************************************************************)
Owners == 0..NumCallers

Handlers == {"config_flow", "search_street"}

NoStore == [streets |-> <<>>, loaded |-> FALSE, lock |-> 0, waiters |-> <<>>]

\* fetched: GETs of the dataset URL; failed: its load returned False
NoReq == [pc |-> "idle", handler |-> "none", store |-> 0, ret |-> "none", data |-> NoData,
          fetched |-> 0, failed |-> FALSE]

SetupInit ==
  /\ StoreInit
  /\ LoadIdle
  /\ SearchIdle
  /\ cacheDir = TRUE
  /\ cache \in {NoCache, CacheFile(0, Collection(<<F42>>)),
                CacheFile(CACHE_DURATION, Collection(<<F42>>))}
  /\ stores = [o \in Owners |-> NoStore]
  /\ req = [p \in Callers |-> NoReq]
  /\ ApiIdle

setupUnchanged ==
  UNCHANGED <<cacheDir, streets, loaded, lock, waiters, loadVars, searchVars, apiVars>>

\* self._street_lookup = StreetLookup(cache_dir) in a flow, get_street_lookup in the
\* service
StoreOf(p, handler) == IF handler = "search_street" THEN 0 ELSE p

\* async_load on store o, from the acquisition of its lock to the first await in it
SetupEnterBody(p, o, r, st) ==
  IF st[o].loaded
  THEN /\ stores' = [st EXCEPT ![o].lock = 0]
       /\ req' = [r EXCEPT ![p].pc = "done", ![p].ret = "True"]
  ELSE /\ stores' = [st EXCEPT ![o].lock = p]
       /\ req' = [r EXCEPT ![p].pc = IF UseCache(FALSE) THEN "reading" ELSE "downloading"]

\* except Exception: return False
SetupLoadFails(p, o, r) ==
  /\ stores' = [stores EXCEPT ![o].lock = 0]
  /\ req' = [r EXCEPT ![p].pc = "done", ![p].ret = "False", ![p].data = NoData,
                      ![p].failed = TRUE]

\* self._streets = self._parse_geobase(data); self._loaded = True; return True
SetupLoadFinishes(p, o, d, r) ==
  IF ParseRaises(d) THEN SetupLoadFails(p, o, r)
  ELSE /\ stores' = [stores EXCEPT ![o].streets = ParseGeobase(d), ![o].loaded = TRUE,
                                   ![o].lock = 0]
       /\ req' = [r EXCEPT ![p].pc = "done", ![p].ret = "True", ![p].data = NoData]

\* a handler gets its StreetLookup and, if it is not loaded, calls async_load()
SetupRequest(p, handler) ==
  /\ req[p].pc = "idle"
  /\ LET o == StoreOf(p, handler)
         r == [req EXCEPT ![p].handler = handler, ![p].store = o]
     IN IF stores[o].loaded
        THEN /\ req' = [r EXCEPT ![p].pc = "done", ![p].ret = "loaded"]
             /\ UNCHANGED stores
        ELSE IF stores[o].lock = 0 /\ stores[o].waiters = <<>>
        THEN SetupEnterBody(p, o, r, stores)
        ELSE /\ req' = [r EXCEPT ![p].pc = "waiting"]
             /\ stores' = [stores EXCEPT ![o].waiters = Append(@, p)]
  /\ UNCHANGED cache
  /\ setupUnchanged

\* the released lock wakes the first waiter
SetupWake(p) ==
  /\ req[p].pc = "waiting"
  /\ LET o == req[p].store
     IN /\ stores[o].lock = 0
        /\ stores[o].waiters # <<>> /\ Head(stores[o].waiters) = p
        /\ SetupEnterBody(p, o, req, [stores EXCEPT ![o].waiters = Tail(@)])
  /\ UNCHANGED cache
  /\ setupUnchanged

SetupReadCache(p) ==
  /\ req[p].pc = "reading"
  /\ IF CacheGivesData
     THEN SetupLoadFinishes(p, req[p].store, cache.content, req)
     ELSE /\ req' = [req EXCEPT ![p].pc = "downloading"]
          /\ UNCHANGED stores
  /\ UNCHANGED cache
  /\ setupUnchanged

SetupDownload(p, ok, d) ==
  /\ req[p].pc = "downloading"
  /\ LET r == [req EXCEPT ![p].fetched = @ + 1]
     IN IF ~ok THEN SetupLoadFails(p, req[p].store, r)
        ELSE IF cacheDir
        THEN /\ req' = [r EXCEPT ![p].pc = "writing", ![p].data = d]
             /\ UNCHANGED stores
        ELSE SetupLoadFinishes(p, req[p].store, d, r)
  /\ UNCHANGED cache
  /\ setupUnchanged

SetupWriteCache(p, outcome) ==
  /\ req[p].pc = "writing"
  /\ cache' = CASE outcome = "written" -> CacheFile(0, req[p].data)
                [] outcome = "torn" -> CacheFile(0, Corrupt)
                [] OTHER -> cache
  /\ SetupLoadFinishes(p, req[p].store, req[p].data, req)
  /\ setupUnchanged

SetupNext ==
  \/ \E p \in Callers, handler \in Handlers : SetupRequest(p, handler)
  \/ \E p \in Callers : SetupWake(p)
  \/ \E p \in Callers : SetupReadCache(p)
  \/ \E p \in Callers, d \in NetPayloads : SetupDownload(p, TRUE, d)
  \/ \E p \in Callers : SetupDownload(p, FALSE, NoData)
  \/ \E p \in Callers, outcome \in {"written", "failed", "torn"} : SetupWriteCache(p, outcome)

SpecSetup == SetupInit /\ [][SetupNext]_vars

(***************************************************************************)
(* The search functions.  They only read the store, so the model runs one  *)
(* search at a time and keeps its result until the caller has taken it; a  *)
(* load can complete (replacing the collection) between two searches and   *)
(* while a search awaits the geocoder.                                     *)
(***************************************************************************)
Queries == {SaintDenisQuery, DenisQuery, StDenisQuery, BlankQuery}
Hints == {<<>>, SaintDenisQuery, DenisQuery}
CivicNumbers == {1000, 1100, 1500}
OptionalCivicNumbers == {None} \cup {Some(c) : c \in CivicNumbers}
Limits == {1, 2, 10}
Positions == { <<0, 0>>, <<3, 1>> }

PostalCodes == { <<"h","2","x"," ","1","y","6">>, <<"H","2">> }
PostalCivicNumbers == {1100, 1500}
PostalHints == {<<>>, SaintQuery}
PostalLimits == {1, 10}

FullAddresses ==
  { <<>>,
    <<"1","1","0","0"," ","S","t","-","D","e","n","i","s",","," ","M","o","n","t","r","e","a","l">>,
    <<"D","e","n","i","s",","," ","C","a","n","a","d","a">> }
FullLimits == {1, 10}

\* the elements of the arrays the geocoding service answers with; it gives numbers
\* as strings
ItemAtOrigin == GeoItem(JStr(<<"0">>), JStr(<<"0">>), <<>>, <<>>, <<>>)
ItemAt31 == GeoItem(JInt(3), JInt(1), <<>>, <<>>, <<>>)
ItemOnSaintDenis == GeoItem(JStr(<<"2">>), JStr(<<"1">>), RueSaintDenis, <<>>, <<"1","1","0","0">>)
ItemBadLat == GeoItem(JStr(<<"n","a">>), JStr(<<"1">>), <<>>, <<>>, <<>>)

\* the bodies of the 200 responses
GoodBodies ==
  { JsonArrayOf(<<>>), JsonArrayOf(<<ItemAtOrigin>>), JsonArrayOf(<<ItemAt31, ItemAtOrigin>>),
    JsonArrayOf(<<ItemOnSaintDenis>>) }
BadBodies ==
  { NotJson, JsonNullBody, JsonObjectBody, JsonArrayOf(<<ItemAtOrigin, NotAnItem>>),
    JsonArrayOf(<<ItemBadLat>>) }

\* what the geocoding service can answer one GET with
GeocodeResponses ==
  {TransportError, Response(StatusBusy, NoBody), Response(500, NoBody)} \cup
  { Response(200, b) : b \in GoodBodies \cup BadBodies }

\* what one geocoding call can return: nothing (also on every error) or hits
GeocodeAnswers == { ParseHits(b) : b \in GoodBodies }

\* the feature lists of at most MaxSegments distinct features of the pool
RECURSIVE FeatureLists(_)
FeatureLists(n) ==
  IF n = 0 THEN { <<>> }
  ELSE FeatureLists(n - 1) \cup
       { Append(fs, f) : fs \in { gs \in FeatureLists(n - 1) : Len(gs) = n - 1 },
                         f \in FeaturePool }

DistinctFeatures(fs) == \A i, j \in DOMAIN fs : i # j => fs[i] # fs[j]

Datasets == { fs \in FeatureLists(MaxSegments) : DistinctFeatures(fs) }

SearchInit ==
  /\ StoreInit
  /\ LoadIdle
  /\ cacheDir = FALSE
  /\ cache = NoCache
  /\ SearchIdle
  /\ SetupIdle
  /\ ApiIdle

storeUnchanged == UNCHANGED <<cacheDir, streets, loaded, lock, waiters, cache, setupVars, apiVars>>

\* no search is running and no result is held
NoSearchRuns == postal.pc = "idle" /\ full.pc = "idle" /\ lastCall = NoLastCall

\* what a search leaves alone besides the collection
aroundStreetsUnchanged == UNCHANGED <<cacheDir, loaded, lock, waiters, cache, setupVars, apiVars>>

\* a faulty variant: the search keeps only the first segment of the collection
StreetsAfterSearchTruncated(ss) == IF ss = <<>> THEN ss ELSE <<ss[1]>>

\* search reads self._streets and sorts a list of its own: the collection is as before
StreetsAfterSearch(ss) == ss

\* a load of the payload completes: the last stretch of async_load
StoreLoads(fs) ==
  /\ lastCall = NoLastCall
  /\ ~ParseRaises(Collection(fs))
  /\ streets' = ParseGeobase(Collection(fs))
  /\ loaded' = TRUE
  /\ UNCHANGED <<cacheDir, lock, waiters, cache, searchVars, setupVars, apiVars>>
  /\ UNCHANGED loadVars

\* search(query, civic_number, limit)
Search(query, civic_number, limit) ==
  /\ NoSearchRuns
  /\ lastCall' = CallRecord("search", query, civic_number, limit, <<>>, <<>>, <<>>, <<>>,
                            SearchIn(loaded, streets, query, civic_number, limit))
  /\ streets' = StreetsAfterSearch(streets)
  /\ UNCHANGED <<postal, full, http, again>>
  /\ aroundStreetsUnchanged
  /\ UNCHANGED loadVars

\* the caller makes the same search call once more, with nothing in between
SearchAgain ==
  /\ lastCall.op = "search" /\ again = None
  /\ again' = Some(SearchIn(loaded, streets, lastCall.query, lastCall.civic, lastCall.limit))
  /\ streets' = StreetsAfterSearch(streets)
  /\ UNCHANGED <<lastCall, postal, full, http>>
  /\ aroundStreetsUnchanged
  /\ UNCHANGED loadVars

\* search_by_address(civic_number, street_name, limit) delegates to search
SearchByAddress(civic_number, street_name, limit) ==
  /\ NoSearchRuns
  /\ lastCall' = CallRecord("search_by_address", street_name, Some(civic_number), limit,
                            <<>>, <<>>, <<>>, <<>>,
                            SearchIn(loaded, streets, street_name, Some(civic_number), limit))
  /\ UNCHANGED <<postal, full, http, again>>
  /\ storeUnchanged
  /\ UNCHANGED loadVars

\* _search_by_civic_number(civic_number, street_hint, limit)
SearchByCivicNumber(civic_number, street_hint, limit) ==
  /\ NoSearchRuns
  /\ lastCall' = CallRecord("civic", street_hint, Some(civic_number), limit,
                            <<>>, <<>>, <<>>, <<>>,
                            SearchByCivicNumberIn(loaded, streets, civic_number,
                                                  street_hint, limit))
  /\ UNCHANGED <<postal, full, http, again>>
  /\ storeUnchanged
  /\ UNCHANGED loadVars

\* find_nearest_segments(lat, lon, street_name, civic_number, limit)
FindNearestSegments(at, street_name, civic_number, limit) ==
  /\ NoSearchRuns
  /\ lastCall' = CallRecord("nearest", street_name, civic_number, limit, at,
                            <<>>, <<>>, <<>>,
                            FindNearestSegmentsIn(loaded, streets, at[1], at[2],
                                                  street_name, civic_number, limit))
  /\ UNCHANGED <<postal, full, http, again>>
  /\ storeUnchanged
  /\ UNCHANGED loadVars

\* postal_code.upper().strip().replace(" ", "")
NormalizePostalCode(code) == StrReplace(StrStrip(StrUpper(code)), <<" ">>, <<>>)

FormulationCivicAndCode == 1
FormulationCode == 2
FormulationStructured == 3
FormulationFSA == 4

\* a faulty variant: the postal code alone is never tried
NextFormulationSkipping(k, code) ==
  IF k = FormulationCivicAndCode THEN FormulationStructured
  ELSE IF k = FormulationStructured /\ Len(NormalizePostalCode(code)) >= 3
       THEN FormulationFSA
       ELSE 0

\* the formulation tried after formulation k returned nothing; 0 when none is left
NextFormulation(k, code) ==
  IF k < FormulationStructured THEN k + 1
  ELSE IF k = FormulationStructured /\ Len(NormalizePostalCode(code)) >= 3
       THEN FormulationFSA
       ELSE 0

\* a faulty variant: the fallback drops the street hint
PostalFallbackWithoutHint(civic_number, street_hint, limit) ==
  SearchByCivicNumberIn(loaded, streets, civic_number, <<>>, limit)

\* the list returned when no formulation gave a hit
PostalFallback(civic_number, street_hint, limit) ==
  SearchByCivicNumberIn(loaded, streets, civic_number, street_hint, limit)

\* async_search_by_postal_code up to the first GET of its first geocoding call
PostalSearchStarts(civic_number, code, street_hint, limit) ==
  /\ NoSearchRuns
  /\ postal' = PostalCall(civic_number, code, street_hint, limit,
                          <<FormulationCivicAndCode>>)
  /\ http' = FirstRequest
  /\ UNCHANGED <<lastCall, full, again>>
  /\ storeUnchanged
  /\ UNCHANGED loadVars

\* async_search_by_full_address up to the first GET of its geocoding call
FullSearchStarts(address, limit) ==
  /\ NoSearchRuns
  /\ full' = FullCall(address, limit)
  /\ http' = FirstRequest
  /\ UNCHANGED <<lastCall, postal, again>>
  /\ storeUnchanged
  /\ UNCHANGED loadVars

\* async_search_by_postal_code from the return of a geocoding call: hits end the
\* search with the ranked neighbours, no hit leads to the next formulation or to the
\* civic-range fallback
PostalContinues(geocoded) ==
  LET k == postal.tried[Len(postal.tried)]
      Finished(result) ==
        /\ lastCall' = CallRecord("postal", postal.hint, Some(postal.civic),
                                  postal.limit, <<>>, postal.code, postal.tried,
                                  geocoded, result)
        /\ postal' = NoPostal
        /\ http' = [http EXCEPT !.pc = "idle"]
  IN /\ IF geocoded # <<>>
        THEN Finished(PostalRanked(loaded, streets, geocoded, postal.civic, postal.limit))
        ELSE IF NextFormulation(k, postal.code) # 0
        THEN /\ postal' = [postal EXCEPT
                             !.tried = Append(@, NextFormulation(k, postal.code))]
             /\ http' = FirstRequest
             /\ UNCHANGED lastCall
        ELSE Finished(PostalFallback(postal.civic, postal.hint, postal.limit))
     /\ UNCHANGED <<full, again>>

\* async_search_by_full_address from the return of its geocoding call
FullContinues(geocoded) ==
  /\ lastCall' = CallRecord("full", full.address, None, full.limit, <<>>, <<>>, <<>>,
                            geocoded,
                            FullAddressResult(loaded, streets, full.address, geocoded,
                                              full.limit))
  /\ full' = NoFull
  /\ http' = [http EXCEPT !.pc = "idle"]
  /\ UNCHANGED <<postal, again>>

\* the geocoding call returns the list to the search that awaits it
CallerContinues(geocoded) ==
  /\ IF postal.pc = "geocoding" THEN PostalContinues(geocoded) ELSE FullContinues(geocoded)
  /\ storeUnchanged
  /\ UNCHANGED loadVars

\* the whole exchange of one geocoding call with the service, in one step: the call
\* returns one of the lists a response can be read as
GeocodeReturns(geocoded) ==
  /\ http.pc = "waiting" /\ http.sent = 1
  /\ CallerContinues(geocoded)

\* the service answers the GET in flight, or the GET raises
HttpResponds(resp) ==
  /\ http.pc = "waiting"
  /\ http' = [http EXCEPT !.pc = "answered", !.resp = resp]
  /\ UNCHANGED <<lastCall, postal, full, again>>
  /\ storeUnchanged
  /\ UNCHANGED loadVars

\* the geocoding function reads the response: a 503 to the first GET starts the
\* backoff, anything else ends the call
ResponseHandled ==
  /\ http.pc = "answered"
  /\ IF RetriesOn503(http.resp, http.sent)
     THEN /\ http' = [http EXCEPT !.pc = "backoff"]
          /\ UNCHANGED <<lastCall, postal, full, again>>
          /\ storeUnchanged
          /\ UNCHANGED loadVars
     ELSE CallerContinues(GeocodeOutcome(http.resp))

\* asyncio.sleep(2) is over: the second GET is sent
BackoffElapses ==
  /\ http.pc = "backoff"
  /\ http' = [http EXCEPT !.pc = "waiting", !.sent = @ + 1]
  /\ UNCHANGED <<lastCall, postal, full, again>>
  /\ storeUnchanged
  /\ UNCHANGED loadVars

\* the caller is done with the returned list
ResultTaken ==
  /\ lastCall # NoLastCall
  /\ lastCall' = NoLastCall
  /\ again' = None
  /\ http' = NoHttp
  /\ UNCHANGED <<postal, full>>
  /\ storeUnchanged
  /\ UNCHANGED loadVars

SearchNext ==
  \/ \E fs \in Datasets : StoreLoads(fs)
  \/ \E q \in Queries, c \in OptionalCivicNumbers, n \in Limits : Search(q, c, n)
  \/ SearchAgain
  \/ \E q \in Queries, c \in CivicNumbers, n \in Limits : SearchByAddress(c, q, n)
  \/ \E c \in CivicNumbers, h \in Hints, n \in Limits : SearchByCivicNumber(c, h, n)
  \/ \E at \in Positions, h \in Hints, c \in OptionalCivicNumbers, n \in Limits :
       FindNearestSegments(at, h, c, n)
  \/ \E c \in PostalCivicNumbers, code \in PostalCodes, h \in PostalHints,
        n \in PostalLimits : PostalSearchStarts(c, code, h, n)
  \/ \E a \in FullAddresses, n \in FullLimits : FullSearchStarts(a, n)
  \/ \E g \in GeocodeAnswers : GeocodeReturns(g)
  \/ ResultTaken

SpecSearch == SearchInit /\ [][SearchNext]_vars

(***************************************************************************)
(* The geocoding calls at the level of their HTTP requests, under a few    *)
(* searches that make them                                                 *)
(***************************************************************************)
GeocodeDatasets == { <<F42, F6>>, <<F7>> }

\* with a code that is blank
GeocodePostalCodes == PostalCodes \cup { <<" ">> }

GeocodeNext ==
  \/ \E fs \in GeocodeDatasets : StoreLoads(fs)
  \/ \E code \in GeocodePostalCodes : PostalSearchStarts(1100, code, <<>>, 10)
  \/ \E a \in FullAddresses : FullSearchStarts(a, 10)
  \/ \E resp \in GeocodeResponses : HttpResponds(resp)
  \/ ResponseHandled
  \/ BackoffElapses
  \/ ResultTaken

SpecGeocode == SearchInit /\ [][GeocodeNext]_vars

(***************************************************************************)
(* Postal-code searches over segments whose ranges lie at different        *)
(* distances from the civic number                                         *)
(***************************************************************************)
\* a closed range above that of segment 42
F3 == Feature(JInt(3), JStr(RueStDenis), JInt(1300), JInt(1400), "Droit", PointAt(1, 1))

RankPool == {F42, F3, F5, F7, F8}

\* the feature lists of at most n features of the pool
RECURSIVE RankLists(_)
RankLists(n) ==
  IF n = 0 THEN { <<>> }
  ELSE RankLists(n - 1) \cup
       { Append(fs, f) : fs \in { gs \in RankLists(n - 1) : Len(gs) = n - 1 },
                         f \in RankPool }

RankDatasets == { fs \in RankLists(MaxSegments) : DistinctFeatures(fs) }

RankCivicNumbers == {1100, 1350, 1500}
RankCode == <<"h","2","x"," ","1","y","6">>
RankLimits == {1, 2, 10}
RankAnswers ==
  { <<>>, <<Hit(0, 0, <<>>, <<>>)>>, <<Hit(3, 1, <<>>, <<>>), Hit(0, 0, <<>>, <<>>)>> }

RankNext ==
  \/ \E fs \in RankDatasets : StoreLoads(fs)
  \/ \E c \in RankCivicNumbers, n \in RankLimits : PostalSearchStarts(c, RankCode, <<>>, n)
  \/ \E g \in RankAnswers : GeocodeReturns(g)
  \/ ResultTaken

SpecRank == SearchInit /\ [][RankNext]_vars

(***************************************************************************)
(* Nearest-neighbour searches over segments of which two share a centroid  *)
(***************************************************************************)
\* the centroid of segment 42 and a name the longer hints contain
F4 == Feature(JInt(4), JStr(Denis), JInt(1000), JInt(1200), "Gauche", PointAt(2, 1))

NearPool == {F42, F4, F5, F7, F8, F9}

RECURSIVE NearLists(_)
NearLists(n) ==
  IF n = 0 THEN { <<>> }
  ELSE NearLists(n - 1) \cup
       { Append(fs, f) : fs \in { gs \in NearLists(n - 1) : Len(gs) = n - 1 },
                         f \in NearPool }

NearDatasets == { fs \in NearLists(MaxSegments) : DistinctFeatures(fs) }

NearNext ==
  \/ \E fs \in NearDatasets : StoreLoads(fs)
  \/ \E at \in Positions, h \in Hints, c \in OptionalCivicNumbers, n \in Limits :
       FindNearestSegments(at, h, c, n)
  \/ ResultTaken

SpecNear == SearchInit /\ [][NearNext]_vars

(***************************************************************************)
(* The shared API configuration, the coordinators and the options flow     *)
(***************************************************************************)
UPDATE_INTERVAL == 600

apiUnchanged == UNCHANGED <<storeVars, loadVars, searchVars, setupVars>>

\* ApiConfigStore.has_api_token: bool(self._data.get("api_token"))
HasApiToken(cfg) == cfg.token # NoToken

\* PlanifNeigeClient(api_token, use_simulation)
Client(token, sim) == Some([token |-> token, sim |-> sim])

\* SnowMontrealCoordinator.__init__
Built(cfg) ==
  [made |-> TRUE, registered |-> FALSE,
   has_api_token |-> HasApiToken(cfg),
   client |-> IF HasApiToken(cfg) THEN Client(cfg.token, cfg.sim) ELSE None,
   update_interval |-> IF HasApiToken(cfg) THEN Some(UPDATE_INTERVAL) ELSE None]

\* a faulty variant: the polling interval is left as it was
ReconfiguredKeepingInterval(co, cfg) ==
  [co EXCEPT !.has_api_token = HasApiToken(cfg),
             !.client = IF HasApiToken(cfg) THEN Client(cfg.token, cfg.sim) ELSE None]

\* async_update_api_config from the read of has_api_token to the refresh
Reconfigured(co, cfg) ==
  [co EXCEPT !.has_api_token = HasApiToken(cfg),
             !.client = IF HasApiToken(cfg) THEN Client(cfg.token, cfg.sim) ELSE None,
             !.update_interval = IF HasApiToken(cfg) THEN Some(UPDATE_INTERVAL) ELSE None]

UpdateRuns(c) == updates[c].pc \in {"planifications", "infos"}

\* _async_update_data up to its first await
UpdateStarted(co) ==
  IF ~co.has_api_token \/ co.client = None
  THEN [pc |-> "done", result |-> "None"]
  ELSE [pc |-> "planifications", result |-> "none"]

\* async_refresh: the update runs unless one is running already
Refreshed(c, co) == IF UpdateRuns(c) THEN updates[c] ELSE UpdateStarted(co)

\* async_setup_entry builds the coordinator and awaits its first refresh; the
\* coordinator is built with the shared store, the third argument of its
\* constructor (the call in async_setup_entry names two)
SetupEntry(c) ==
  /\ ~coordinators[c].made
  /\ coordinators' = [coordinators EXCEPT ![c] = Built(apiConfig)]
  /\ updates' = [updates EXCEPT ![c] = UpdateStarted(Built(apiConfig))]
  /\ UNCHANGED <<apiConfig, flows, submits>>
  /\ apiUnchanged

\* the first refresh is over: hass.data[DOMAIN][entry_id] = coordinator, or the
\* setup fails with ConfigEntryNotReady and the coordinator is dropped
SetupEntryEnds(c) ==
  /\ coordinators[c].made /\ ~coordinators[c].registered
  /\ updates[c].pc = "done"
  /\ IF updates[c].result \in {"None", "data"}
     THEN /\ coordinators' = [coordinators EXCEPT ![c].registered = TRUE]
          /\ UNCHANGED updates
     ELSE /\ coordinators' = [coordinators EXCEPT ![c] = NoCoordinator]
          /\ updates' = [updates EXCEPT ![c] = NoUpdate]
  /\ UNCHANGED <<apiConfig, flows, submits>>
  /\ apiUnchanged

\* a scheduled or requested refresh of a registered coordinator
Refresh(c) ==
  /\ coordinators[c].registered
  /\ ~UpdateRuns(c)
  /\ updates' = [updates EXCEPT ![c] = UpdateStarted(coordinators[c])]
  /\ UNCHANGED <<apiConfig, coordinators, flows, submits>>
  /\ apiUnchanged

PlanificationOutcomes == {"has", "lacks", "error"}

\* async_get_planifications returns: with the street, without it, or with an error
PlanificationsReturn(c, outcome) ==
  /\ updates[c].pc = "planifications"
  /\ updates' = [updates EXCEPT ![c] =
       CASE outcome = "has" -> [@ EXCEPT !.pc = "done", !.result = "data"]
         [] outcome = "error" -> [@ EXCEPT !.pc = "done", !.result = "failed"]
         [] OTHER -> IF coordinators[c].client = None
                     THEN [@ EXCEPT !.pc = "done", !.result = "raised"]
                     ELSE [@ EXCEPT !.pc = "infos"]]
  /\ UNCHANGED <<apiConfig, coordinators, flows, submits>>
  /\ apiUnchanged

\* async_get_planification_infos returns
InfosReturn(c, ok) ==
  /\ updates[c].pc = "infos"
  /\ updates' = [updates EXCEPT ![c] =
       [@ EXCEPT !.pc = "done", !.result = IF ok THEN "data" ELSE "failed"]]
  /\ UNCHANGED <<apiConfig, coordinators, flows, submits>>
  /\ apiUnchanged

\* a faulty variant: the configuration is saved whatever the validation said
ProceedsAlways(errors) == TRUE

\* if not errors
Proceeds(errors) == errors = "none"

\* ApiConfigStore.async_save before its await: a token of None is not stored
Saved(cfg, token, sim) ==
  [token |-> IF token # NoToken THEN token ELSE cfg.token, sim |-> sim]

\* the errors entry of each way the validation ends
ErrorOf(outcome) ==
  CASE outcome = "auth" -> "invalid_auth"
    [] outcome = "connect" -> "cannot_connect"
    [] outcome = "unexpected" -> "unknown"
    [] OTHER -> "none"

ValidationOutcomes == {"valid", "auth", "connect", "unexpected"}

\* the options flow has returned: its locals are gone
FlowReturned(fl, result) ==
  [NoFlow EXCEPT !.pc = "done", !.result = result, !.errors = fl.errors,
                 !.client = fl.client]

Registered(cs) == {c \in Entries : cs[c].registered}

\* the least member of a non-empty set of entries
First(S) == CHOOSE c \in S : \A d \in S : c <= d

\* the loop over hass.data[DOMAIN] from entry `from` on, up to its next await: the
\* coordinators without a client are reconfigured on the way when no token is stored
Advance(f, fl, from, cs) ==
  LET rest == {c \in Registered(cs) : c >= from}
      stops == {c \in rest : cs[c].client # None \/ HasApiToken(apiConfig)}
      passed == IF stops = {} THEN rest ELSE {c \in rest : c < First(stops)}
      through == [c \in Entries |->
                   IF c \in passed THEN Reconfigured(cs[c], apiConfig) ELSE cs[c]]
  IN IF Cardinality(Registered(cs)) # fl.size
     THEN \* RuntimeError: dictionary changed size during iteration
          /\ flows' = [flows EXCEPT ![f] = FlowReturned(fl, "raised")]
          /\ coordinators' = cs
          /\ UNCHANGED updates
     ELSE IF stops = {}
     THEN /\ flows' = [flows EXCEPT ![f] = FlowReturned(fl, "entry")]
          /\ coordinators' = through
          /\ UNCHANGED updates
     ELSE LET c == First(stops) IN
          IF cs[c].client # None
          THEN /\ flows' = [flows EXCEPT ![f] = [fl EXCEPT !.pc = "releasing", !.entry = c]]
               /\ coordinators' = through
               /\ UNCHANGED updates
          ELSE /\ flows' = [flows EXCEPT ![f] = [fl EXCEPT !.pc = "refreshing", !.entry = c]]
               /\ coordinators' = [through EXCEPT ![c] = Reconfigured(cs[c], apiConfig)]
               /\ updates' = [updates EXCEPT ![c] =
                                Refreshed(c, Reconfigured(cs[c], apiConfig))]

\* async_step_init(user_input) up to its first await
Submit(f, token, sim) ==
  /\ flows[f].pc \in {"idle", "done"}
  /\ submits < MaxSubmits
  /\ submits' = submits + 1
  /\ LET fl == [NoFlow EXCEPT !.token = token, !.sim = sim]
     IN IF token # NoToken
        THEN /\ flows' = [flows EXCEPT ![f] =
                            [fl EXCEPT !.pc = "validating", !.client = "open"]]
             /\ UNCHANGED apiConfig
        ELSE /\ flows' = [flows EXCEPT ![f] = [fl EXCEPT !.pc = "saving"]]
             /\ apiConfig' = Saved(apiConfig, token, sim)
  /\ UNCHANGED <<coordinators, updates>>
  /\ apiUnchanged

\* async_validate_token returns or raises
ValidationEnds(f, outcome) ==
  /\ flows[f].pc = "validating"
  /\ flows' = [flows EXCEPT ![f].pc = "closing", ![f].errors = ErrorOf(outcome)]
  /\ UNCHANGED <<apiConfig, coordinators, updates, submits>>
  /\ apiUnchanged

\* finally: await client.close(), then the form again or the save
ValidationClientCloses(f) ==
  /\ flows[f].pc = "closing"
  /\ IF Proceeds(flows[f].errors)
     THEN /\ flows' = [flows EXCEPT ![f].pc = "saving", ![f].client = "closed"]
          /\ apiConfig' = Saved(apiConfig, flows[f].token, flows[f].sim)
     ELSE /\ flows' = [flows EXCEPT ![f] =
                         FlowReturned([flows[f] EXCEPT !.client = "closed"], "form")]
          /\ UNCHANGED apiConfig
  /\ UNCHANGED <<coordinators, updates, submits>>
  /\ apiUnchanged

\* Store.async_save is over: the loop over the coordinators starts
StoreSaved(f) ==
  /\ flows[f].pc = "saving"
  /\ Advance(f, [flows[f] EXCEPT !.size = Cardinality(Registered(coordinators))],
             1, coordinators)
  /\ UNCHANGED <<apiConfig, submits>>
  /\ apiUnchanged

\* the old client of the coordinator is closed: the new configuration is read
ClientReleased(f) ==
  /\ flows[f].pc = "releasing"
  /\ LET c == flows[f].entry
         co == Reconfigured(coordinators[c], apiConfig)
         fl == flows[f]
     IN IF co.has_api_token
        THEN /\ flows' = [flows EXCEPT ![f] = [fl EXCEPT !.pc = "refreshing"]]
             /\ coordinators' = [coordinators EXCEPT ![c] = co]
             /\ updates' = [updates EXCEPT ![c] = Refreshed(c, co)]
        ELSE Advance(f, fl, c + 1, [coordinators EXCEPT ![c] = co])
  /\ UNCHANGED <<apiConfig, submits>>
  /\ apiUnchanged

\* async_refresh is over: the loop goes on with the next coordinator
RefreshEnds(f) ==
  /\ flows[f].pc = "refreshing"
  /\ ~UpdateRuns(flows[f].entry)
  /\ Advance(f, flows[f], flows[f].entry + 1, coordinators)
  /\ UNCHANGED <<apiConfig, submits>>
  /\ apiUnchanged

ApiInit ==
  /\ StoreInit
  /\ LoadIdle
  /\ cacheDir = FALSE
  /\ cache = NoCache
  /\ SearchIdle
  /\ SetupIdle
  /\ apiConfig \in {[token |-> NoToken, sim |-> FALSE], [token |-> 1, sim |-> FALSE]}
  /\ coordinators = [c \in Entries |-> NoCoordinator]
  /\ updates = [c \in Entries |-> NoUpdate]
  /\ flows = [f \in Flows |-> NoFlow]
  /\ submits = 0

ApiNext ==
  \/ \E c \in Entries : SetupEntry(c)
  \/ \E c \in Entries : SetupEntryEnds(c)
  \/ \E c \in Entries : Refresh(c)
  \/ \E c \in Entries, outcome \in PlanificationOutcomes : PlanificationsReturn(c, outcome)
  \/ \E c \in Entries, ok \in BOOLEAN : InfosReturn(c, ok)
  \/ \E f \in Flows, token \in {NoToken} \cup Tokens, sim \in BOOLEAN : Submit(f, token, sim)
  \/ \E f \in Flows, outcome \in ValidationOutcomes : ValidationEnds(f, outcome)
  \/ \E f \in Flows : ValidationClientCloses(f)
  \/ \E f \in Flows : StoreSaved(f)
  \/ \E f \in Flows : ClientReleased(f)
  \/ \E f \in Flows : RefreshEnds(f)

SpecApi == ApiInit /\ [][ApiNext]_vars

(***************************************************************************)
(* Claims about async_load                                                 *)
(***************************************************************************)
Returned(p) == pc[p] = "done"

\* the only two calls made on the store so far are async_load(False) calls of p and
\* then q, made on an empty store with q's call made while p's was in flight, and
\* both have returned
TwoConcurrentLoads(p, q) ==
  /\ p # q
  /\ calls = 2
  /\ Returned(p) /\ Returned(q)
  /\ ~force[p] /\ ~force[q]
  /\ ~obs[p].issuedLoaded /\ ~obs[q].issuedLoaded
  /\ ~obs[p].issuedFresh /\ ~obs[q].issuedFresh
  /\ ~obs[p].during
  /\ obs[q].during

\* C1 as stated: two concurrent async_load(False) calls on an empty store (not loaded,
\* no fresh cache file) fetch the dataset exactly once and both return True.
C1_OneFetchBothTrue ==
  \A p, q \in Callers :
    TwoConcurrentLoads(p, q) =>
      /\ obs[p].fetched + obs[q].fetched = 1
      /\ ret[p] = "True" /\ ret[q] = "True"

\* C1 amended: of two concurrent async_load(False) calls on an empty store the one
\* that gets the lock first fetches the dataset; when its load succeeds the other
\* call fetches nothing and both return True (exactly one fetch); when it fails it
\* returns False and the other call makes its own attempt (cache file or network).
C1_OneFetchWhenFirstSucceeds ==
  \A p, q \in Callers :
    TwoConcurrentLoads(p, q) =>
      /\ obs[p].fetched = 1
      /\ ret[p] = "True" => obs[q].fetched = 0 /\ ~obs[q].readCache /\ ret[q] = "True"
      /\ ret[p] = "False" => obs[q].fetched = 1 \/ obs[q].readCache

C1_Witness ==
  \E p, q \in Callers :
    /\ TwoConcurrentLoads(p, q)
    /\ obs[p].fetched + obs[q].fetched = 1
    /\ ret[p] = "True" /\ ret[q] = "True"
    /\ loaded

\* C2: at every moment at most one call is inside the download+parse body of
\* async_load; a call made while a load is in flight queues without touching the
\* store, and a queued call goes on only when no load is in flight.
C2_MutualExclusion ==
  /\ [](Cardinality({p \in Callers : pc[p] \in InBody}) <= 1)
  /\ [][ \A p \in Callers :
           pc[p] = "waiting" /\ pc'[p] # "waiting" =>
             \A q \in Callers : pc[q] \notin InBody ]_vars
  /\ [][ (calls' = calls + 1 /\ \E q \in Callers : pc[q] \in InBody) =>
           /\ \E p \in Callers :
                /\ pc[p] \in {"idle", "done"} /\ pc'[p] = "waiting"
                /\ \A q \in Callers \ {p} : pc'[q] = pc[q]
           /\ UNCHANGED <<streets, loaded, cache, lock>> ]_vars

C2_Witness ==
  \E p, q \in Callers : pc[p] = "downloading" /\ pc[q] = "waiting" /\ lock = p

\* C3 as stated: async_load never raises, and a call that fails (fetch or parse)
\* returns False and leaves the store not loaded, whatever its state before the call.
C3_FailureLeavesUnloaded ==
  [][ \A p \in Callers :
        (pc[p] \in InBody /\ pc'[p] = "done") =>
          /\ ret'[p] \in {"True", "False"}
          /\ ret'[p] = "False" => loaded' = FALSE ]_vars

\* C3 amended: async_load never raises, and a call that fails (fetch or parse)
\* returns False and leaves the store as it was before the call: not loaded when it
\* was not loaded, still loaded with the same segments after a failed forced reload.
C3_FailureLeavesStoreAsItWas ==
  [][ \A p \in Callers :
        (pc[p] \in InBody /\ pc'[p] = "done") =>
          /\ ret'[p] \in {"True", "False"}
          /\ ret'[p] = "True" <=> obs'[p].assigned
          /\ (pc[p] = "writing" /\ ParseRaises(data[p])) => ret'[p] = "False"
          /\ ret'[p] = "False" => loaded' = loaded /\ streets' = streets ]_vars

C3_Witness ==
  \E p \in Callers :
    /\ Returned(p) /\ ret[p] = "False" /\ force[p]
    /\ obs[p].issuedLoaded /\ obs[p].fetched = 1
    /\ loaded

\* C4: once the store is loaded, an async_load(False) call returns True without
\* reading the cache file, without a network fetch and without assigning the
\* segment collection or the loaded flag.
C4_LoadedNoOp ==
  /\ \A p \in Callers :
       (Returned(p) /\ ~force[p] /\ obs[p].issuedLoaded) =>
         /\ ret[p] = "True"
         /\ obs[p].fetched = 0
         /\ ~obs[p].readCache
         /\ ~obs[p].assigned
  /\ \A p \in Callers :
       (~force[p] /\ obs[p].issuedLoaded /\ pc[p] # "idle") => pc[p] \in {"waiting", "done"}

C4_Witness ==
  \E p \in Callers :
    /\ Returned(p) /\ ~force[p] /\ obs[p].issuedLoaded /\ ret[p] = "True"
    /\ streets # <<>>

\* the step in which p gets the lock of a store it has to load
Entering(p) ==
  pc[p] \in {"idle", "done", "waiting"} /\ pc'[p] \in {"reading", "downloading"}

Readable(content) == content.kind # "corrupt"

\* C5 as stated: a non-forced load of an unloaded store parses the cache file, without
\* a network fetch, when the file exists, is readable and is less than 24 hours old,
\* and fetches when it is more than 24 hours old; a forced load always fetches.
C5_FreshCacheUsed ==
  [][ \A p \in Callers :
        /\ (Entering(p) /\ ~force'[p] /\ cacheDir /\ cache.exists
              /\ Readable(cache.content) /\ cache.age < CACHE_DURATION)
             => pc'[p] = "reading"
        /\ (pc[p] = "reading" /\ Readable(cache.content) /\ pc'[p] # "reading")
             => /\ pc'[p] = "done"
                /\ obs'[p].fetched = 0
                /\ obs'[p].assigned => streets' = ParseGeobase(cache.content)
        /\ (Entering(p) /\ ~force'[p] /\ cacheDir /\ cache.exists
              /\ cache.age > CACHE_DURATION)
             => pc'[p] = "downloading"
        /\ (Entering(p) /\ force'[p]) => pc'[p] = "downloading"
        /\ (pc[p] = "downloading" /\ pc'[p] # "downloading")
             => obs'[p].fetched = obs[p].fetched + 1 ]_vars

NonEmptyJson(content) == content.kind # "corrupt" /\ PayloadTruthy(content)

\* C5 amended: the cache file is used when it exists, is less than 24 hours old, is
\* readable and decodes to a non-empty JSON value; a fresh file holding an empty
\* value ({}, [], null) is a cache miss and the dataset is fetched.  Above 24 hours
\* and with force_refresh the dataset is fetched.
C5_FreshNonEmptyCacheUsed ==
  [][ \A p \in Callers :
        /\ (Entering(p) /\ ~force'[p] /\ cacheDir /\ cache.exists
              /\ cache.age < CACHE_DURATION)
             => pc'[p] = "reading"
        /\ (pc[p] = "reading" /\ NonEmptyJson(cache.content) /\ pc'[p] # "reading")
             => /\ pc'[p] = "done"
                /\ obs'[p].fetched = 0
                /\ obs'[p].assigned => streets' = ParseGeobase(cache.content)
        /\ (pc[p] = "reading" /\ ~NonEmptyJson(cache.content) /\ pc'[p] # "reading")
             => pc'[p] = "downloading"
        /\ (Entering(p) /\ ~force'[p] /\ cacheDir /\ cache.exists
              /\ cache.age > CACHE_DURATION)
             => pc'[p] = "downloading"
        /\ (Entering(p) /\ force'[p]) => pc'[p] = "downloading"
        /\ (pc[p] = "downloading" /\ pc'[p] # "downloading")
             => obs'[p].fetched = obs[p].fetched + 1 ]_vars

C5_Witness ==
  \E p \in Callers :
    /\ Returned(p) /\ ~force[p] /\ ~obs[p].issuedLoaded
    /\ obs[p].readCache /\ obs[p].fetched = 0 /\ obs[p].assigned
    /\ ret[p] = "True"

(***************************************************************************)
(* Claims about the search functions                                       *)
(***************************************************************************)
InList(seg, list) == \E i \in DOMAIN list : list[i] = seg

\* the recorded call returned fewer segments than its limit: nothing was cut off
NotCutOff == Len(lastCall.result) < lastCall.limit

IsTextSearch == lastCall.op \in {"search", "search_by_address"}

\* C6: when no geocoding formulation returns a hit, async_search_by_postal_code
\* returns exactly the list _search_by_civic_number returns for the same civic
\* number, street hint and limit.
C6_PostalFallbackIsCivicSearch ==
  (lastCall.op = "postal" /\ lastCall.geocoded = <<>>) =>
    /\ lastCall.result =
         SearchByCivicNumberIn(loaded, streets, lastCall.civic[1], lastCall.query,
                               lastCall.limit)
    /\ lastCall.tried \in { <<1, 2, 3, 4>>, <<1, 2, 3>> }

C6_Witness ==
  /\ lastCall.op = "postal" /\ lastCall.geocoded = <<>>
  /\ lastCall.tried = <<1, 2, 3, 4>>
  /\ lastCall.query # <<>>
  /\ lastCall.result # <<>>
  /\ \E i \in DOMAIN streets : ~InList(streets[i], lastCall.result)

Segment42 == SegmentOf(F42)

\* C7: with segment 42 (Rue Saint-Denis, 1000-1200) in the loaded dataset,
\* search("saint denis", civic_number=1100) returns segment 42 first, as an exact
\* normalized-name match (100) with the in-range bonus (20).
C7_SaintDenisFound ==
  (/\ lastCall.op = "search"
   /\ lastCall.query = SaintDenisQuery
   /\ lastCall.civic = Some(1100)
   /\ loaded /\ InList(Segment42, streets)) =>
    /\ lastCall.result # <<>>
    /\ lastCall.result[1] = Segment42
    /\ NormalizeStreetName(StrLower(Segment42.street_name))
         = NormalizeStreetName(StrStrip(StrLower(SaintDenisQuery)))

\* the civic range of a segment contains c, as the description of
\* _search_by_civic_number has it: min..max of the two bounds, or from address_start
\* upwards when only address_start is there
RangeContains(seg, c) ==
  \/ /\ Present(seg.address_start) /\ Present(seg.address_end)
     /\ Min(seg.address_start[1], seg.address_end[1]) <= c
     /\ c <= Max(seg.address_start[1], seg.address_end[1])
  \/ /\ Present(seg.address_start) /\ ~Present(seg.address_end)
     /\ c >= seg.address_start[1]

NameContainsHint(seg, hint) ==
  \/ hint = <<>>
  \/ Contains(NormalizeStreetName(StrLower(seg.street_name)),
              NormalizeStreetName(StrLower(hint)))

SortedByNameAndStart(list) ==
  \A i, j \in DOMAIN list :
    i < j => ~NameStartLess(list[j], list[i])

\* C8: _search_by_civic_number returns every segment whose civic range contains the
\* number (both bounds: min..max; only address_start: civic >= address_start), kept
\* by the hint, sorted by (street_name, address_start); the limit alone cuts it.
C8_CivicSearchReturnsEveryMatch ==
  lastCall.op = "civic" =>
    /\ \A i \in DOMAIN streets :
         (RangeContains(streets[i], lastCall.civic[1])
            /\ NameContainsHint(streets[i], lastCall.query) /\ NotCutOff)
           => InList(streets[i], lastCall.result)
    /\ \A i \in DOMAIN lastCall.result :
         /\ InList(lastCall.result[i], streets)
         /\ RangeContains(lastCall.result[i], lastCall.civic[1])
         /\ NameContainsHint(lastCall.result[i], lastCall.query)
    /\ SortedByNameAndStart(lastCall.result)

\* segments the call's own name and centroid filters keep
KeptByName(seg) ==
  CASE IsTextSearch ->
         MatchScore(NormalizeStreetName(StrLower(seg.street_name)),
                    NormalizeStreetName(StrStrip(StrLower(lastCall.query)))) > 0
    [] lastCall.op = "civic" -> NameContainsHint(seg, lastCall.query)
    [] lastCall.op = "nearest" ->
         HasCentroid(seg) /\ NearestNameKeeps(seg, lastCall.query)
    [] OTHER -> TRUE

\* a call that took a civic number and filters on it
FiltersOnCivic ==
  /\ lastCall.op \in {"search", "search_by_address", "civic", "nearest"}
  /\ lastCall.civic # None
  /\ StrStrip(StrLower(lastCall.query)) # <<>> \/ ~IsTextSearch

\* in the postal-code re-ranking no segment outside its range precedes seg
RankedAsInRange(seg) ==
  \A i, j \in DOMAIN lastCall.result :
    (i < j /\ lastCall.result[j] = seg) =>
      /\ HasClosedRange(lastCall.result[i])
      /\ InClosedRange(lastCall.result[i], lastCall.civic[1])

ReversedRangeMatches(Reversed(_)) ==
  \A k \in DOMAIN streets :
    (/\ Reversed(streets[k])
     /\ streets[k].address_end[1] <= lastCall.civic[1]
     /\ lastCall.civic[1] <= streets[k].address_start[1]) =>
      /\ (FiltersOnCivic /\ KeptByName(streets[k]) /\ NotCutOff)
           => InList(streets[k], lastCall.result)
      /\ (lastCall.op = "postal" /\ lastCall.geocoded # <<>>)
           => RankedAsInRange(streets[k])

StoredReversed(seg) ==
  /\ seg.address_start # None /\ seg.address_end # None
  /\ seg.address_start[1] > seg.address_end[1]

\* C9 as stated: for a segment stored with address_start > address_end, a civic
\* number between the two bounds (inclusive) is inside the range for search,
\* _search_by_civic_number, find_nearest_segments and the postal-code re-ranking.
C9_ReversedRangeContains ==
  (lastCall.op # "none" /\ lastCall.civic # None) => ReversedRangeMatches(StoredReversed)

StoredReversedNonZero(seg) == StoredReversed(seg) /\ seg.address_end[1] # 0

\* C9 amended: the same for a segment stored with address_start > address_end and
\* address_end not 0; a stored bound of 0 counts as absent in every range check.
C9_ReversedNonZeroRangeContains ==
  (lastCall.op # "none" /\ lastCall.civic # None)
    => ReversedRangeMatches(StoredReversedNonZero)

Segment7 == SegmentOf(F7)

C9_Witness ==
  /\ lastCall.op = "search" /\ lastCall.civic = Some(1100)
  /\ StoredReversedNonZero(Segment7)
  /\ InList(Segment7, streets) /\ InList(Segment7, lastCall.result)

NormalizedQuery == NormalizeStreetName(StrStrip(StrLower(lastCall.query)))

NameScore(seg) == MatchScore(NormalizeStreetName(StrLower(seg.street_name)), NormalizedQuery)

ExactMatch(seg) == NormalizeStreetName(StrLower(seg.street_name)) = NormalizedQuery

SubstringOnlyMatch(seg) ==
  /\ Contains(NormalizeStreetName(StrLower(seg.street_name)), NormalizedQuery)
  /\ ~ExactMatch(seg)
  /\ ~StartsWith(NormalizeStreetName(StrLower(seg.street_name)), NormalizedQuery)
  /\ \A w \in DOMAIN StrSplit(NormalizeStreetName(StrLower(seg.street_name))) :
       StrSplit(NormalizeStreetName(StrLower(seg.street_name)))[w] # NormalizedQuery

\* the score search gives a returned segment: the name score plus the range bonus
TotalScore(seg) ==
  NameScore(seg)
    + (IF lastCall.civic # None /\ RangeContains(seg, lastCall.civic[1])
          /\ Present(seg.address_end) THEN RangeBonus ELSE 0)

\* C10: in the list search returns an exact normalized-name match never comes after
\* a substring-only match, with or without a civic number, whatever the dataset
\* order; the list is in descending order of score (name score 100/80/60/40 plus
\* the range bonus), ties in ascending (street_name, address_start) order.
C10_ExactBeforeSubstring ==
  IsTextSearch =>
    \A i, j \in DOMAIN lastCall.result :
      i < j =>
        /\ ~(SubstringOnlyMatch(lastCall.result[i]) /\ ExactMatch(lastCall.result[j]))
        /\ TotalScore(lastCall.result[i]) >= TotalScore(lastCall.result[j])
        /\ TotalScore(lastCall.result[i]) = TotalScore(lastCall.result[j])
             => ~NameStartLess(lastCall.result[j], lastCall.result[i])

\* the substring match precedes the exact match in the dataset
C10_Witness ==
  /\ IsTextSearch /\ lastCall.civic # None
  /\ Len(lastCall.result) = 2 /\ Len(streets) = 2
  /\ ExactMatch(lastCall.result[1]) /\ SubstringOnlyMatch(lastCall.result[2])
  /\ streets[1] = lastCall.result[2]

\* the pair search appends for seg, if any: its score is what the sort key reads
ScoreGiven(seg, score) ==
  \E i \in DOMAIN ScoredCandidates(streets, NormalizedQuery, lastCall.civic) :
    ScoredCandidates(streets, NormalizedQuery, lastCall.civic)[i] = <<score, seg>>

Excluded(seg) ==
  /\ ~InList(seg, lastCall.result)
  /\ \A score \in {ScoreExact, ScorePrefix, ScoreWord, ScoreSubstring,
                   ScoreExact + RangeBonus, ScorePrefix + RangeBonus,
                   ScoreWord + RangeBonus, ScoreSubstring + RangeBonus} :
       ~ScoreGiven(seg, score)

KeptWithScore(seg, score) ==
  /\ ScoreGiven(seg, score)
  /\ NotCutOff => InList(seg, lastCall.result)

\* a bound is there when it is stored and not 0
BothBounds(seg) == Present(seg.address_start) /\ Present(seg.address_end)
OnlyStart(seg) == Present(seg.address_start) /\ ~Present(seg.address_end)
NoBounds(seg) == ~Present(seg.address_start) /\ ~Present(seg.address_end)

BetweenBounds(seg, c) ==
  /\ Min(seg.address_start[1], seg.address_end[1]) <= c
  /\ c <= Max(seg.address_start[1], seg.address_end[1])

SearchCallStep ==
  \/ lastCall = NoLastCall /\ lastCall'.op = "search"
  \/ again = None /\ again' # None

NoCentroid(seg) == seg.lat = None \/ seg.lon = None

\* the recorded call ranks by distance: find_nearest_segments, or one of the two
\* geocoding searches after the geocoder returned a hit
GeometryBased ==
  \/ lastCall.op = "nearest"
  \/ lastCall.op \in {"postal", "full"} /\ lastCall.geocoded # <<>>

\* C13: a segment without a centroid is in no result of find_nearest_segments, nor of
\* the full-address and postal-code searches when the geocoder returned a hit; search
\* and _search_by_civic_number still return it when its name and its range match
\* (and the limit cuts nothing off).
C13_NoCentroidOnlyInTextResults ==
  /\ GeometryBased => \A i \in DOMAIN lastCall.result : ~NoCentroid(lastCall.result[i])
  /\ (lastCall.op = "search" /\ loaded /\ NotCutOff /\ StrStrip(StrLower(lastCall.query)) # <<>>) =>
       \A k \in DOMAIN streets :
         (NoCentroid(streets[k]) /\ NameScore(streets[k]) > 0
            /\ ~CivicExcludes(streets[k], lastCall.civic))
         => InList(streets[k], lastCall.result)
  /\ (lastCall.op = "civic" /\ loaded /\ NotCutOff) =>
       \A k \in DOMAIN streets :
         (NoCentroid(streets[k]) /\ HasClosedRange(streets[k])
            /\ InClosedRange(streets[k], lastCall.civic[1])
            /\ HintKeeps(streets[k], lastCall.query))
         => InList(streets[k], lastCall.result)

\* a full-address search found segments around a hit and left out a segment that the
\* hit's street name and house number keep and that has no centroid
C13_Witness ==
  /\ lastCall.op = "full" /\ lastCall.geocoded # <<>> /\ lastCall.result # <<>>
  /\ \E k \in DOMAIN streets :
       /\ NoCentroid(streets[k])
       /\ NearestNameKeeps(streets[k], lastCall.geocoded[1].street)
       /\ lastCall.geocoded[1].street # <<>>
       /\ ~CivicExcludes(streets[k], HouseNumberOf(lastCall.geocoded[1]))
       /\ ~InList(streets[k], lastCall.result)
       /\ SearchByCivicNumberIn(loaded, streets, 1100, <<>>, 10) # <<>>
       /\ InList(streets[k], SearchByCivicNumberIn(loaded, streets, 1100, <<>>, 10))

(***************************************************************************)
(* Claims about invalid input                                              *)
(***************************************************************************)
Blank(s) == StrStrip(s) = <<>>

\* C14: a search function called with an empty or blank query, address or postal
\* code sends no geocoding request and returns the empty list.
C14_BlankInputShortCircuits ==
  /\ (full.pc = "geocoding" /\ Blank(full.address)) => http.sent = 0
  /\ (postal.pc = "geocoding" /\ Blank(postal.code)) => http.sent = 0
  /\ (lastCall.op \in {"search", "search_by_address", "full"} /\ Blank(lastCall.query))
       => lastCall.result = <<>>
  /\ (lastCall.op = "postal" /\ Blank(lastCall.code)) => lastCall.result = <<>>

(***************************************************************************)
(* Claims about the geocoding calls                                        *)
(***************************************************************************)
\* a transport error, an HTTP error status, a body that is not JSON, or a payload
\* that is empty or not an array of objects with numeric coordinates
Unusable(resp) ==
  \/ resp = TransportError
  \/ resp.status >= FirstErrorStatus
  \/ resp.body.t # "array"
  \/ resp.body.items = <<>>
  \/ \E i \in DOMAIN resp.body.items :
       \/ resp.body.items[i].kind # "object"
       \/ FloatRaises(resp.body.items[i].lat)
       \/ FloatRaises(resp.body.items[i].lon)

\* in this step the geocoding call returned the empty list and the search that made
\* it went on: to its next formulation, or to its local fallback
FellBack ==
  IF postal.pc = "geocoding"
  THEN \/ /\ postal'.pc = "geocoding"
          /\ Len(postal'.tried) = Len(postal.tried) + 1
          /\ http' = FirstRequest
          /\ lastCall' = NoLastCall
       \/ /\ lastCall'.op = "postal"
          /\ lastCall'.geocoded = <<>>
          /\ lastCall'.result =
               SearchByCivicNumberIn(loaded, streets, postal.civic, postal.hint, postal.limit)
  ELSE /\ lastCall'.op = "full"
       /\ lastCall'.geocoded = <<>>
       /\ lastCall'.result =
            IF ParseAddress(full.address).street = <<>> THEN <<>>
            ELSE SearchIn(loaded, streets, ParseAddress(full.address).street,
                          ParseAddress(full.address).civic, full.limit)

\* the geocoding function is done with the response it read: no retry follows
CallEnds == http.pc = "answered" /\ http'.pc \notin {"answered", "backoff"}

\* C15: a geocoding call whose response is a transport error, an HTTP error status,
\* not JSON, empty or not the expected array of objects returns the empty list, and
\* the search that made the call goes on with its fallback.
C15_GeocodingFailureFallsBack ==
  [][ (CallEnds /\ Unusable(http.resp)) => FellBack ]_vars

\* a full-address search whose geocoding call was retried and then read an array
\* holding an element that is not an object ended with what the text search found
C15_Witness ==
  /\ lastCall.op = "full" /\ lastCall.geocoded = <<>> /\ lastCall.result # <<>>
  /\ http.sent = 2
  /\ http.resp.body.t = "array"
  /\ \E i \in DOMAIN http.resp.body.items : http.resp.body.items[i].kind # "object"

\* C16: one geocoding call sends at most two requests; the second is sent only after
\* a 503 to the first and the backoff; a failed retry (any error status, a second
\* 503 included) ends the call with the empty list.
C16_AtMostOneRetry ==
  [][ /\ http'.sent <= 2
      /\ (http'.sent > http.sent /\ http.sent >= 1) =>
           (http.pc = "backoff" /\ http.sent = 1 /\ http.resp.status = StatusBusy)
      /\ (http.pc = "answered" /\ http.sent = 2 /\ http' # http
            /\ (http.resp = TransportError \/ http.resp.status >= FirstErrorStatus))
           => (http'.pc # "backoff" /\ FellBack) ]_vars

\* a postal-code search gave up its last formulation after the retry was answered
\* with 503 as well, and ended with the civic-range fallback
C16_Witness ==
  /\ lastCall.op = "postal" /\ lastCall.geocoded = <<>>
  /\ lastCall.tried[Len(lastCall.tried)] = FormulationFSA
  /\ http.sent = 2 /\ http.resp.status = StatusBusy
  /\ lastCall.result # <<>>

(***************************************************************************)
(* Claims about the setup requests                                         *)
(***************************************************************************)
Downloading == {p \in Callers : req[p].pc = "downloading"}

RECURSIVE FetchedUpTo(_)
FetchedUpTo(n) == IF n = 0 THEN 0 ELSE req[n].fetched + FetchedUpTo(n - 1)

\* C17: setup requests made while nothing is loaded do not duplicate the download:
\* never two GETs of the dataset in flight, and no second GET unless a load failed.
C17_SetupDownloadsOnce ==
  /\ Cardinality(Downloading) <= 1
  /\ (\A p \in Callers : ~req[p].failed) => FetchedUpTo(NumCallers) <= 1

(***************************************************************************)
(* C18                                                                     *)
(***************************************************************************)
\* the payload caller p holds inside the body: the contents of the cache file it is
\* reading, or the payload it fetched
PayloadHeld(p) == IF pc[p] = "reading" THEN cache.content ELSE data[p]

\* caller p leaves the body of async_load in this step
LoadEnds(p) == pc[p] \in InBody /\ pc'[p] = "done"

\* C18: a successful load replaces the segment collection by the complete parse of
\* one payload: the collection and the loaded flag change only in the finishing step
\* of a call that returns True, the collection is then the whole parse of the payload
\* that call held, never a partly built or extended one, and once the store is loaded
\* only a forced reload makes such a step.
C18_LoadReplacesWholesale ==
  [][ (streets' # streets \/ loaded' # loaded) =>
        \E p \in Callers :
          /\ LoadEnds(p)
          /\ ret'[p] = "True"
          /\ loaded'
          /\ streets' = ParseGeobase(PayloadHeld(p))
          /\ loaded => force[p] ]_vars

\* a forced reload has replaced the collection parsed from the payload that is still
\* in the cache file by the one parsed from another payload
C18_Witness ==
  \E p \in Callers :
    /\ pc[p] = "done" /\ force[p] /\ ret[p] = "True"
    /\ obs[p].issuedLoaded /\ obs[p].assigned
    /\ cache.exists /\ cache.content = Collection(<<F42>>)
    /\ loaded
    /\ Len(streets) = 3
    /\ streets # ParseGeobase(cache.content)

(***************************************************************************)
(* C19                                                                     *)
(***************************************************************************)
\* a record with an object for its properties, a non-zero integer identifier, a
\* non-empty street name, integer or missing bounds and a point for its geometry
WellFormedRecord(f) ==
  /\ f.kind = "object"
  /\ f.id.t = "int" /\ f.id.n # 0
  /\ f.name.t = "str" /\ StrStrip(f.name.s) # <<>>
  /\ f.start.t \in {"int", "absent"}
  /\ f.end.t \in {"int", "absent"}
  /\ f.geometry.t \in {"Point", "LineString", "MultiLineString", "none"}

\* C19: _parse_geobase accepts a record only with a non-zero identifier and a
\* non-empty street name, and a malformed record (missing or null properties, a
\* feature that is not an object, a non-numeric identifier or bound, a bad
\* geometry) is skipped without aborting the parse: a load that has fetched a
\* payload returns True and its collection holds every well-formed record of the
\* payload.
C19_MalformedRecordsSkipped ==
  [][ \A p \in Callers :
        (pc[p] = "writing" /\ pc'[p] = "done") =>
          /\ ret'[p] = "True"
          /\ \A i \in 1..Len(streets') :
               streets'[i].cote_rue_id # 0 /\ streets'[i].street_name # <<>>
          /\ \A i \in 1..Len(data[p].features) :
               WellFormedRecord(data[p].features[i]) =>
                 \E j \in 1..Len(streets') :
                   streets'[j].cote_rue_id = data[p].features[i].id.n ]_vars

(***************************************************************************)
(* C20                                                                     *)
(***************************************************************************)
\* C20: cache I/O failures are never fatal to a load.  A call that returns False has
\* gone to the network, or has taken its data from a cache file it could read and
\* decode; a call that reads an undecodable cache file goes on to the download; and
\* a call whose cache write fails still parses the payload it fetched and returns
\* True.
C20_CacheFailuresNeverFatal ==
  [][ \A p \in Callers :
        /\ (pc'[p] = "done" /\ ret'[p] = "False") =>
             (obs'[p].fetched >= 1 \/ obs'[p].readCache)
        /\ (pc[p] = "reading" /\ cache.content.kind = "corrupt" /\ pc'[p] # "reading") =>
             pc'[p] = "downloading"
        /\ ( /\ pc[p] = "writing" /\ pc'[p] = "done"
             /\ cache' # CacheFile(0, data[p])
             /\ ~ParseRaises(data[p]) ) =>
             (ret'[p] = "True" /\ loaded' /\ streets' = ParseGeobase(data[p])) ]_vars

(***************************************************************************)
(* C21                                                                     *)
(***************************************************************************)
\* the formulations issued so far are 1, 2, ... in this order
InOrder(tried) == Len(tried) <= FormulationFSA /\ \A i \in DOMAIN tried : tried[i] = i

\* the geocoding call of a postal-code search returns in this step
PostalCallReturns ==
  /\ postal.pc = "geocoding"
  /\ http.pc = "answered"
  /\ http'.pc \notin {"answered", "backoff"}

\* C21: async_search_by_postal_code issues its formulations one after another in
\* the order civic number + postal code, postal code, structured query, FSA: the
\* next one is issued only when the call that just returned gave no hit (so all the
\* earlier ones gave none), none is issued after a call that gave hits, and a search
\* makes at most four geocoding calls.
C21_FormulationsInOrder ==
  [][ /\ postal'.pc = "geocoding" => InOrder(postal'.tried)
      /\ postal'.tried # postal.tried =>
           \/ postal.pc = "idle" /\ postal'.tried = <<FormulationCivicAndCode>>
           \/ /\ PostalCallReturns
              /\ GeocodeOutcome(http.resp) = <<>>
              /\ postal'.tried = Append(postal.tried, Len(postal.tried) + 1)
           \/ PostalCallReturns /\ postal'.pc = "idle"
      /\ (PostalCallReturns /\ GeocodeOutcome(http.resp) # <<>>) =>
           /\ postal'.pc = "idle"
           /\ lastCall'.op = "postal"
           /\ lastCall'.tried = postal.tried
           /\ lastCall'.geocoded = GeocodeOutcome(http.resp) ]_vars

\* the third formulation gave hits after the first two gave none: the fourth was
\* not issued
C21_Witness ==
  /\ lastCall.op = "postal"
  /\ lastCall.tried = <<FormulationCivicAndCode, FormulationCode, FormulationStructured>>
  /\ lastCall.geocoded # <<>>

(***************************************************************************)
(* C22                                                                     *)
(***************************************************************************)
\* a postal-code search whose geocoding gave hits has returned
RankedCall == lastCall.op = "postal" /\ lastCall.geocoded # <<>>

\* the segments the unfiltered nearest-neighbour searches around the hits return,
\* 2 * limit of them per hit
NeighboursOfHits ==
  { seg \in {streets[i] : i \in DOMAIN streets} :
      \E h \in DOMAIN lastCall.geocoded :
        InList(seg, FindNearestSegmentsIn(loaded, streets, lastCall.geocoded[h].lat,
                                          lastCall.geocoded[h].lon, <<>>, None,
                                          2 * lastCall.limit)) }

\* the result is a duplicate-free list of min(limit, size of the union) neighbours
FirstOfUnion ==
  /\ \A i \in DOMAIN lastCall.result : lastCall.result[i] \in NeighboursOfHits
  /\ \A i, j \in DOMAIN lastCall.result : i # j => lastCall.result[i] # lastCall.result[j]
  /\ Len(lastCall.result) = Min(lastCall.limit, Cardinality(NeighboursOfHits))

\* the distance in house numbers from the civic number to the nearer bound
BoundaryDistance(seg, civic) ==
  Min(Abs(civic - seg.address_start[1]), Abs(civic - seg.address_end[1]))

ExpectedParse(address) ==
  CASE address = <<>> -> [civic |-> None, street |-> <<>>]
    [] Head(address) = "1" -> [civic |-> Some(1100), street |-> StDenisQuery]
    [] OTHER -> [civic |-> None, street |-> Denis]

\* the list find_nearest_segments returns around hit h of the finished call
AroundHit(h) ==
  LET hit == lastCall.geocoded[h]
      number == IF hit.house_number # <<>> /\ IsDigitString(hit.house_number)
                THEN Some(DigitsValue(hit.house_number)) ELSE None
  IN FindNearestSegmentsIn(loaded, streets, hit.lat, hit.lon, hit.street, number,
                           lastCall.limit)

\* the segments found around some hit
AroundHits ==
  { seg \in {streets[i] : i \in DOMAIN streets} :
      \E h \in DOMAIN lastCall.geocoded : InList(seg, AroundHit(h)) }

\* the place of a segment in the union: the first hit that finds it and its
\* position in the list found around that hit
UnionRank(seg) ==
  LET h == CHOOSE k \in DOMAIN lastCall.geocoded :
             /\ InList(seg, AroundHit(k))
             /\ \A m \in 1..(k - 1) : ~InList(seg, AroundHit(m))
      pos == CHOOSE i \in DOMAIN AroundHit(h) : AroundHit(h)[i] = seg
  IN 100 * h + pos

\* C23: async_search_by_full_address uses the text search exactly when geocoding
\* gave no hit.  Without a hit the result is search(street, civic, limit) for the
\* civic number and street parsed from the text (the empty list when no street is
\* left); with hits it is the first `limit` elements of the duplicate-free union, in
\* hit order, of the lists find_nearest_segments returns for each hit's position,
\* street and numeric house number.
C23_TextSearchIffNoHit ==
  lastCall.op = "full" =>
    IF lastCall.geocoded = <<>>
    THEN LET parsed == ExpectedParse(lastCall.query)
         IN lastCall.result =
              IF parsed.street = <<>> THEN <<>>
              ELSE SearchIn(loaded, streets, parsed.street, parsed.civic, lastCall.limit)
    ELSE /\ \A i \in DOMAIN lastCall.result : lastCall.result[i] \in AroundHits
         /\ Len(lastCall.result) = Min(lastCall.limit, Cardinality(AroundHits))
         /\ \A i, j \in DOMAIN lastCall.result :
              i < j => UnionRank(lastCall.result[i]) < UnionRank(lastCall.result[j])
         /\ \A seg \in AroundHits :
              ~InList(seg, lastCall.result) =>
                \A i \in DOMAIN lastCall.result :
                  UnionRank(lastCall.result[i]) < UnionRank(seg)

\* two hits: the result is the segment nearest to the first hit, then the one
\* nearest to the second hit, and a text search of the address finds nothing
C23_Witness ==
  /\ lastCall.op = "full"
  /\ Len(lastCall.geocoded) = 2
  /\ Len(lastCall.result) = 2
  /\ AroundHit(2)[1] = lastCall.result[2]
  /\ AroundHit(1)[1] = lastCall.result[1]
  /\ AroundHit(2)[1] # lastCall.result[1]
  /\ SearchIn(loaded, streets, ExpectedParse(lastCall.query).street,
              ExpectedParse(lastCall.query).civic, lastCall.limit) # lastCall.result

(***************************************************************************)
(* C24                                                                     *)
(***************************************************************************)
\* the normalized hint is contained in the normalized name, or the name in the hint
\* (no filter without a hint)
NameFilterPasses(seg, hint) ==
  LET h == NormalizeStreetName(StrLower(hint))
      n == NormalizeStreetName(StrLower(seg.street_name))
  IN h = <<>> \/ Contains(n, h) \/ Contains(h, n)

\* a closed range contains the number; only address_start requires the number to
\* be at or above it (no filter without a number)
CivicFilterPasses(seg, civic) ==
  \/ civic = None
  \/ BothBounds(seg) /\ BetweenBounds(seg, civic[1])
  \/ OnlyStart(seg) /\ civic[1] >= seg.address_start[1]
  \/ ~Present(seg.address_start)

\* the positions in the dataset of the segments that survive the filters of the
\* finished find_nearest_segments call
Survivors ==
  { k \in DOMAIN streets :
      /\ streets[k].lat # None /\ streets[k].lon # None
      /\ NameFilterPasses(streets[k], lastCall.query)
      /\ CivicFilterPasses(streets[k], lastCall.civic) }

\* survivor k is nearer to the point than survivor m, or as near and earlier in the
\* dataset
NearerThan(k, m) ==
  LET Far(i) == CalculateDistance(lastCall.at[1], lastCall.at[2],
                                  streets[i].lat[1], streets[i].lon[1])
  IN Far(k) < Far(m) \/ (Far(k) = Far(m) /\ k < m)

\* C24: find_nearest_segments returns the `limit` nearest (all, if fewer) of the
\* segments that have a centroid and pass the name filter and the civic filter, in
\* ascending order of distance, segments at equal distance in dataset order; on a
\* store that is not loaded it returns the empty list.
C24_NearestSurvivors ==
  lastCall.op = "nearest" =>
    IF ~loaded THEN lastCall.result = <<>>
    ELSE \E pick \in [DOMAIN lastCall.result -> Survivors] :
           /\ \A i \in DOMAIN lastCall.result : lastCall.result[i] = streets[pick[i]]
           /\ \A i, j \in DOMAIN lastCall.result : i < j => NearerThan(pick[i], pick[j])
           /\ Len(lastCall.result) = Min(lastCall.limit, Cardinality(Survivors))
           /\ \A k \in Survivors :
                (\A i \in DOMAIN lastCall.result : pick[i] # k) =>
                  \A i \in DOMAIN lastCall.result : NearerThan(pick[i], k)

\* two segments at the same distance that pass both filters are returned in
\* dataset order, the one with the greater identifier and name first
C24_Witness ==
  /\ lastCall.op = "nearest" /\ loaded
  /\ lastCall.query = DenisQuery
  /\ lastCall.civic = Some(1100)
  /\ lastCall.at = <<3, 1>>
  /\ streets = <<Segment42, SegmentOf(F4)>>
  /\ lastCall.result = streets

(***************************************************************************)
(* C25                                                                     *)
(***************************************************************************)
\* one of the four search strategies has returned
StrategyReturned == lastCall.op \in {"search", "search_by_address", "full", "postal"}

\* C25: each of search, search_by_address, async_search_by_full_address and
\* async_search_by_postal_code returns a list of at most `limit` segments, each a
\* member of the collection loaded at the time of the return, and an empty list
\* when the store is not loaded.
C25_AtMostLimitMembers ==
  StrategyReturned =>
    /\ Len(lastCall.result) <= lastCall.limit
    /\ \A i \in DOMAIN lastCall.result : InList(lastCall.result[i], streets)
    /\ ~loaded => lastCall.result = <<>>

\* a postal-code search with hits has cut its result to the limit, leaving out
\* a segment with a centroid
C25_Witness ==
  /\ lastCall.op = "postal" /\ lastCall.geocoded # <<>>
  /\ lastCall.limit = 1
  /\ Len(lastCall.result) = 1
  /\ \E k \in DOMAIN streets :
       streets[k].lat # None /\ ~InList(streets[k], lastCall.result)

(***************************************************************************)
(* C26                                                                     *)
(***************************************************************************)
\* a payload that is not a feature collection: a JSON array, or an object without
\* a features list
WrongShape(d) == d.kind \in {"array", "emptyobject"}

\* C26: a structurally wrong top-level payload yields zero parsed records without
\* erroring: the load that fetched it returns True and the store is loaded with no
\* segment.
C26_WrongShapeGivesNoRecords ==
  [][ \A p \in Callers :
        (pc[p] = "writing" /\ pc'[p] = "done" /\ WrongShape(data[p])) =>
          (ret'[p] = "True" /\ loaded' /\ streets' = <<>>) ]_vars

(***************************************************************************)
(* C27                                                                     *)
(***************************************************************************)
\* caller p's call returns False in this step
CallFails(p) == pc[p] # "done" /\ pc'[p] = "done" /\ ret'[p] = "False"

\* C27: a failed async_load leaves the segment collection and the loaded flag as
\* they were before the call (both are only assigned in the finishing step, so they
\* are also what they were when the call started inside the lock), and the loaded
\* flag, once true, never becomes false again.
C27_FailedLoadChangesNothing ==
  [][ /\ \A p \in Callers : CallFails(p) => (streets' = streets /\ loaded' = loaded)
      /\ loaded => loaded'
      /\ \A p \in Callers :
           (pc[p] \in InBody /\ pc'[p] \in InBody) => (streets' = streets /\ loaded' = loaded)
    ]_vars

\* after a successful load a forced reload has failed on a payload it fetched, and
\* the store still holds the segment loaded first
C27_Witness ==
  \E p, q \in Callers :
    /\ p # q
    /\ pc[q] = "done" /\ ret[q] = "True" /\ obs[q].assigned
    /\ pc[p] = "done" /\ ret[p] = "False" /\ force[p] /\ obs[p].issuedLoaded
    /\ obs[p].fetched = 1
    /\ loaded /\ streets = <<Segment42>>

(***************************************************************************)
(* C28                                                                     *)
(***************************************************************************)
\* every call returns, and the lock a call holds is released
EveryCallReturns ==
  \A p \in Callers :
    /\ (pc[p] \in InFlight) ~> (pc[p] = "done")
    /\ (lock = p) ~> (lock # p)

\* caller p, who queued for the lock, goes on in this step after another call has
\* returned False
WakesAfterFailure(p) ==
  /\ pc[p] = "waiting" /\ pc'[p] # "waiting"
  /\ \E q \in Callers \ {p} : pc[q] = "done" /\ ret[q] = "False"

\* C28 as stated: every async_load call eventually returns and releases the lock,
\* whether the load succeeded or failed, and a caller that was waiting on a load
\* that failed then performs its own fetch attempt.
C28_WaiterFetchesAfterFailure ==
  /\ EveryCallReturns
  /\ [][ \A p \in Callers : WakesAfterFailure(p) => pc'[p] = "downloading" ]_vars

\* C28 amended: every async_load call eventually returns and releases the lock,
\* whether the load succeeded or failed, and a caller that was waiting on a load
\* that failed then makes its own attempt: it returns True at once when the store
\* is loaded and the call is not forced, reads the cache file when a fresh one is
\* there and the call is not forced, and fetches otherwise.
C28_WaiterLoadsAfterFailure ==
  /\ EveryCallReturns
  /\ [][ \A p \in Callers :
           WakesAfterFailure(p) =>
             /\ (loaded /\ ~force[p]) => (pc'[p] = "done" /\ ret'[p] = "True")
             /\ (~(loaded /\ ~force[p]) /\ UseCache(force[p])) => pc'[p] = "reading"
             /\ (~(loaded /\ ~force[p]) /\ ~UseCache(force[p])) => pc'[p] = "downloading"
       ]_vars

\* a caller that queued behind a load that failed has made its own fetch, which
\* succeeded
C28_Witness ==
  \E p, q \in Callers :
    /\ p # q
    /\ pc[q] = "done" /\ ret[q] = "False" /\ obs[q].fetched = 1
    /\ pc[p] = "done" /\ ret[p] = "True" /\ obs[p].during /\ obs[p].fetched = 1
    /\ ~obs[p].issuedLoaded
    /\ lock = 0

(***************************************************************************)
(* C29                                                                     *)
(***************************************************************************)
\* the coordinator of entry c holds a client, and polls, exactly when it has a token
ClientIffToken(c) ==
  /\ (coordinators[c].client # None) <=> coordinators[c].has_api_token
  /\ (coordinators[c].update_interval # None) <=> coordinators[c].has_api_token

\* _async_update_data of entry c is called in this step
UpdateCalled(c) ==
  /\ coordinators'[c].made
  /\ ~UpdateRuns(c)
  /\ updates'[c] # updates[c]

\* C29: once built, and after every async_update_api_config, a coordinator holds an
\* API client exactly when has_api_token is true and has an update interval exactly
\* when has_api_token is true; an _async_update_data called while has_api_token is
\* false returns None at once, and no API call is in flight while it is false.
C29_ClientAndIntervalIffToken ==
  /\ [](\A c \in Entries :
          /\ coordinators[c].made => ClientIffToken(c)
          /\ UpdateRuns(c) => coordinators[c].has_api_token)
  /\ [][ \A c \in Entries :
           (UpdateCalled(c) /\ ~coordinators'[c].has_api_token) =>
             updates'[c] = [pc |-> "done", result |-> "None"] ]_vars

\* the options flow has stored token 2 and returned, and a registered coordinator
\* now holds a client for it, polls, and has fetched data with it
C29_Witness ==
  \E c \in Entries, f \in Flows :
    /\ flows[f].pc = "done" /\ flows[f].result = "entry"
    /\ apiConfig.token = 2
    /\ coordinators[c].registered
    /\ coordinators[c].has_api_token
    /\ coordinators[c].client = Client(2, apiConfig.sim)
    /\ coordinators[c].update_interval = Some(UPDATE_INTERVAL)
    /\ updates[c] = [pc |-> "done", result |-> "data"]

(***************************************************************************)
(* C30                                                                     *)
(***************************************************************************)
\* the options flow f takes this step
FlowActs(f) == flows'[f] # flows[f]

\* the client, flag or interval of a registered coordinator changes in this step
CoordinatorUpdated(c) ==
  /\ coordinators[c].registered
  /\ coordinators'[c] # coordinators[c]

\* C30: the shared configuration is saved, and a coordinator updated, only in a step
\* of an options flow whose token produced no validation error; a flow whose
\* validation failed (invalid auth, connection error, unexpected exception) leaves
\* the stored token and simulation flag and every coordinator as they were and shows
\* the form again with its error; the validation client of a flow that has gone past
\* the validation is closed.
C30_SavedOnlyWithoutError ==
  /\ [][ /\ apiConfig' # apiConfig =>
              \E f \in Flows : FlowActs(f) /\ flows'[f].errors = "none"
                               /\ flows'[f].pc = "saving"
         /\ \A c \in Entries :
              CoordinatorUpdated(c) =>
                \E f \in Flows : FlowActs(f) /\ flows[f].errors = "none"
                                 /\ flows[f].pc \in {"saving", "releasing", "refreshing"}
         /\ \A f \in Flows :
              (FlowActs(f) /\ flows[f].pc = "closing" /\ flows[f].errors # "none") =>
                /\ apiConfig' = apiConfig
                /\ coordinators' = coordinators
                /\ flows'[f] = [NoFlow EXCEPT !.pc = "done", !.result = "form",
                                              !.errors = flows[f].errors,
                                              !.client = "closed"]
       ]_vars
  /\ [](\A f \in Flows :
          /\ flows[f].errors # "none" => flows[f].pc \in {"closing", "done"}
          /\ flows[f].pc \notin {"validating", "closing"} => flows[f].client # "open")

\* a flow whose token was refused has shown the form again with invalid_auth, its
\* validation client is closed, and the token stored before is still the stored one
\* and the registered coordinator still works with it
C30_Witness ==
  \E f \in Flows, c \in Entries :
    /\ flows[f] = [NoFlow EXCEPT !.pc = "done", !.result = "form",
                                 !.errors = "invalid_auth", !.client = "closed"]
    /\ submits = 1
    /\ apiConfig = [token |-> 1, sim |-> FALSE]
    /\ coordinators[c].registered
    /\ coordinators[c].client = Client(1, FALSE)

====
